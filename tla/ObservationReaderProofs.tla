---------------------- MODULE ObservationReaderProofs ----------------------
(***************************************************************************)
(* What a reader gives and when it ends, for all observations, files,      *)
(* batches and regions, and any number of readers and starts.  Outcome     *)
(* says what init_() leaves behind and Reads what readObservation_() does, *)
(* in all formats; Steps reduces a step to them.  The invariants are Inv   *)
(* (what a reader of each format may hold, and which files it has looked   *)
(* at), Held (where what it holds comes from), Underway (where it stands   *)
(* in the file it has opened, and what it has collected) and Linked (the   *)
(* chain of regions).  NextRead says what a call finds where the reader    *)
(* stands; Gives says what a call takes from what is left to deliver,      *)
(* which makes every step one of ReaderContract.  The facts about filtered *)
(* sequences are proved by induction on the number of records, over sets   *)
(* of numbers (NatBySets).                                                 *)
(***************************************************************************)
EXTENDS ObservationReader, FiniteSetTheorems, SequenceTheorems, WellFoundedInduction, TLAPS

USE ItemAssumption, RegionAssumption, NoneAssumption, StartsAssumption

(***************************************************************************)
(* Files, and what init_() makes of them                                   *)
(***************************************************************************)
StreamSet == [open : BOOLEAN, rest : Seq(Record), eol : BOOLEAN, good : BOOLEAN]
DataSet == [mem : Seq(Record), n : Nat, idx : Int]

\* A file is one of other programs or one that the client wrote.
FromClient(f, t, b) ==
  t \in Type /\ b \in Batch /\ ~Refused(t, b) /\ ~BreaksOff(t, b) /\ f = Written(t, b)
FromSomeone(f) ==
  f \in File \/ f = Emptied \/ \E t \in Type, b \in Batch : FromClient(f, t, b)

\* What init_() finds out about a file it looks at.
Accepts(f, t) ==
  /\ t \in f.types
  /\ t = "TXT" => \A i, j \in RangeOf(f.recs) \ {Bad} : SameTokens(i, j)

RecsOf(f) == IF f = None THEN {} ELSE RangeOf(f.recs)

LEMMA KeptType ==
  ASSUME NEW t, NEW b \in Batch
  PROVE  /\ Kept(t, b) \in Seq(Item) /\ Len(Kept(t, b)) = Len(b) /\ b \in Seq(Item)
         /\ \A k \in DOMAIN b : Kept(t, b)[k] = IF t \in Complete THEN b[k] ELSE Bare[b[k]]
         /\ DOMAIN Kept(t, b) = DOMAIN b /\ DOMAIN b = 1 .. Len(b) /\ Len(b) \in Nat
<1>0. b \in Seq(Item)
  BY BatchAssumption
<1>1. b \in Seq(Item) /\ DOMAIN b = 1 .. Len(b) /\ Len(b) \in Nat
      /\ \A k \in 1 .. Len(b) : b[k] \in Item
  BY <1>0
<1>2. CASE t \in Complete
  BY <1>1, <1>2 DEF Kept
<1>3. CASE t \notin Complete
  <2>1. Kept(t, b) = [k \in 1 .. Len(b) |-> Bare[b[k]]]
    BY <1>1, <1>3 DEF Kept
  <2>2. \A k \in 1 .. Len(b) : Bare[b[k]] \in Item
    BY <1>1, BareAssumption
  <2>3. Kept(t, b) \in Seq(Item) /\ Len(Kept(t, b)) = Len(b)
    BY <1>1, <2>1, <2>2
  <2> QED BY <1>1, <1>3, <2>1, <2>3
<1> QED BY <1>2, <1>3

LEMMA FileType == ASSUME NEW f, FromSomeone(f) PROVE f \in FileSet
<1>1. CASE f \in File
  BY <1>1, FileAssumption
<1>2. ASSUME NEW t, NEW b, FromClient(f, t, b) PROVE f \in FileSet
  <2>1. Kept(t, b) \in Seq(Item) /\ Len(b) \in Nat /\ b \in Batch /\ t \in Type
    BY <1>2, KeptType DEF FromClient
  <2>2. Kept(t, b) \in Seq(Record)
    BY <2>1 DEF Record
  <2>3. {t} \in SUBSET Type
    BY <2>1
  <2> QED BY <1>2, <2>1, <2>2, <2>3 DEF FromClient, Written, FileSet
<1>3. CASE f = Emptied
  <2>1. << >> \in Seq(Record) /\ {"TXT"} \in SUBSET Type
    BY DEF Type, Streams
  <2> QED BY <1>3, <2>1 DEF Emptied, FileSet
<1> QED BY <1>1, <1>2, <1>3 DEF FromSomeone

\* Only other programs write orientations of an unknown domain, to XML files.
LEMMA OddRecords ==
  ASSUME NEW f, FromSomeone(f), Odd \in RangeOf(f.recs)
  PROVE  f.types \subseteq {"NUKLEI"} /\ f \in File
<1>1. CASE f \in File
  BY <1>1, FileAssumption
<1>2. ASSUME NEW t, NEW b, FromClient(f, t, b) PROVE FALSE
  <2>1. f.recs \in Seq(Item)
    BY <1>2, KeptType DEF FromClient, Written
  <2>2. RangeOf(f.recs) \subseteq Item
    BY <2>1 DEF RangeOf
  <2> QED BY <2>2
<1>3. CASE f = Emptied
  <2>1. RangeOf(f.recs) = {}
    BY <1>3 DEF Emptied, RangeOf
  <2> QED BY <2>1
<1> QED BY <1>1, <1>2, <1>3 DEF FromSomeone

\* What is left of a sequence after its first k elements.
LEMMA Rest ==
  ASSUME NEW S, NEW s \in Seq(S), NEW k \in 0 .. Len(s)
  PROVE  /\ SubSeq(s, k + 1, Len(s)) \in Seq(S)
         /\ RangeOf(SubSeq(s, k + 1, Len(s))) \subseteq RangeOf(s)
         /\ Len(SubSeq(s, k + 1, Len(s))) = Len(s) - k
         /\ \A i \in 1 .. Len(s) - k : SubSeq(s, k + 1, Len(s))[i] = s[k + i]
<1> DEFINE r == SubSeq(s, k + 1, Len(s))
<1>1. Len(s) \in Nat /\ k \in Int /\ k + 1 \in Int /\ \A i \in k + 1 .. Len(s) : s[i] \in S
  OBVIOUS
<1>2. /\ r \in Seq(S)
      /\ Len(r) = IF k + 1 <= Len(s) THEN Len(s) - (k + 1) + 1 ELSE 0
      /\ \A i \in 1 .. Len(s) - (k + 1) + 1 : r[i] = s[(k + 1) + i - 1]
  BY <1>1, SubSeqProperties
<1> HIDE DEF r
<1>3. Len(r) = Len(s) - k /\ \A i \in 1 .. Len(s) - k : r[i] = s[k + i]
  <2> DEFINE n == Len(s)
  <2>0. n \in Nat /\ k \in 0 .. n
    BY <1>1
  <2> HIDE DEF n
  <2>1. n - (k + 1) + 1 = n - k /\ (k + 1 <= n \/ n - k = 0)
    BY <2>0
  <2>2. \A i \in 1 .. n - k : (k + 1) + i - 1 = k + i
    BY <2>0
  <2>3. Len(r) = n - k
    BY <1>2, <2>1 DEF n
  <2>4. \A i \in 1 .. n - k : r[i] = s[(k + 1) + i - 1]
    BY <1>2, <2>1 DEF n
  <2> QED BY <2>2, <2>3, <2>4 DEF n
<1>4. RangeOf(r) \subseteq RangeOf(s)
  <2>1. \A i \in DOMAIN r : k + i \in DOMAIN s
    BY <1>1, <1>2, <1>3
  <2>2. DOMAIN r = 1 .. Len(s) - k
    BY <1>2, <1>3
  <2> QED BY <1>3, <2>1, <2>2 DEF RangeOf
<1> QED BY <1>2, <1>3, <1>4 DEF r

LEMMA OpenedFacts ==
  ASSUME file \in FileSet, NEW rest \in Seq(Record)
  PROVE  /\ Opened(rest) \in StreamSet
         /\ Opened(rest).rest = rest /\ Opened(rest).eol = file.eol /\ Opened(rest).open
         /\ Opened(rest).good = (file.eol \/ rest /= << >>)
BY DEF Opened, StreamSet, FileSet

LEMMA OpenedEmpty ==
  ASSUME file \in FileSet
  PROVE  Opened(<< >>) \in StreamSet /\ Opened(<< >>).rest = << >>
<1>1. << >> \in Seq(Record)
  OBVIOUS
<1> QED BY <1>1 DEF Opened, StreamSet, FileSet

LEMMA ClosedFacts ==
  /\ Closed \in StreamSet /\ Closed.rest = << >> /\ ~Closed.open
  /\ Nothing \in DataSet /\ Nothing.mem = << >> /\ Nothing.n = 0 /\ Nothing.idx = -1
  /\ RangeOf(<< >>) = {}
<1>1. << >> \in Seq(Record) /\ DOMAIN << >> = {}
  OBVIOUS
<1> QED BY <1>1 DEF Closed, Nothing, StreamSet, DataSet, RangeOf

\* What init_() leaves in a reader when it returns, or throws.
Outcome(o, t, s, d) ==
  /\ o.stream \in StreamSet /\ o.data \in DataSet /\ o.verdict \in {"ok", "error", "ioerror"}
  /\ t \in Streams => o.data.mem = d.mem
  /\ t \in {"CRD", "TXT"} => o.data = d
  /\ t \in Streams /\ s = Closed => RangeOf(o.stream.rest) \subseteq RecsOf(file)
  /\ t \in Indexed /\ s.rest = << >> => o.stream.rest = << >>
  /\ t \in Archives => o.stream = s
  /\ o.data.idx \in {d.idx, 0}
  /\ t \in Archives => /\ o.data.n = Len(o.data.mem) /\ RangeOf(o.data.mem) \subseteq RecsOf(file)
                       /\ Odd \notin RangeOf(o.data.mem)
  /\ o.verdict = "ok" /\ file = None => t = "CRD" /\ o.stream = Closed
  /\ o.verdict = "ok" /\ file /= None =>
       /\ t \in file.types
       /\ t \in Streams => o.stream = Opened(file.recs)
       /\ t \in Counted => o.data.n = file.count /\ o.data.idx = 0
       /\ t \in Indexed => /\ o.data.mem = file.recs /\ o.data.n = Len(file.recs)
                           /\ o.data.idx = 0
       /\ t = "NUKLEI" => o.stream.open

LEMMA TypeSets ==
  /\ Type = Streams \union Grids \union Archives \union {"NUKLEI"}
  /\ Streams \intersect Indexed = {} /\ Grids \intersect Archives = {}
  /\ "NUKLEI" \notin Grids \union Archives
  /\ Counted \subseteq Streams /\ {"CRD", "TXT"} \subseteq Streams
  /\ {"CRD", "TXT"} \intersect Counted = {}
BY DEF Type, Streams, Indexed, Grids, Archives, Counted

\* What init_() of a stream leaves when it does not get to the end.
LEMMA PartOutcome ==
  ASSUME file /= None, FromSomeone(file), NEW t \in Streams, NEW s, NEW d \in DataSet,
         NEW p \in PartWay \union {AtTheEnd}, NEW o, o = Init_(p, d, "ioerror")
  PROVE  Outcome(o, t, s, d)
<1>0. file \in FileSet /\ t \notin Indexed /\ t \notin Archives
  BY FileType, TypeSets DEF Indexed
<1>1. PICK k \in 0 .. Len(file.recs), g \in BOOLEAN :
        p = [Opened(SubSeq(file.recs, k + 1, Len(file.recs))) EXCEPT !.good = g]
        \/ p = [Opened(<< >>) EXCEPT !.good = g]
  <2>1. CASE p \in PartWay
    BY <2>1 DEF PartWay
  <2>2. CASE p = AtTheEnd
    <3>1. 0 \in 0 .. Len(file.recs) /\ FALSE \in BOOLEAN
      BY <1>0 DEF FileSet
    <3> QED BY <2>2, <3>1 DEF AtTheEnd
  <2> QED BY <2>1, <2>2
<1> DEFINE r == IF p = [Opened(<< >>) EXCEPT !.good = g] THEN << >>
                ELSE SubSeq(file.recs, k + 1, Len(file.recs))
<1>2. file.recs \in Seq(Record)
  BY <1>0 DEF FileSet
<1>3. r \in Seq(Record) /\ RangeOf(r) \subseteq RangeOf(file.recs)
  BY <1>2, Rest, ClosedFacts
<1>4. p = [Opened(r) EXCEPT !.good = g]
  BY <1>1
<1> HIDE DEF r
<1>5. p \in StreamSet /\ p.rest = r
  <2>1. Opened(r) \in StreamSet /\ Opened(r).rest = r
    BY <1>0, <1>3, OpenedFacts
  <2> DEFINE q == Opened(r)
  <2> HIDE DEF q
  <2>2. p = [q EXCEPT !.good = g] /\ q \in StreamSet /\ q.rest = r
    BY <1>4, <2>1 DEF q
  <2> QED BY <2>2 DEF StreamSet
<1>6. o.stream = p /\ o.data = d /\ o.verdict = "ioerror"
  BY DEF Init_
<1> QED BY <1>0, <1>3, <1>5, <1>6 DEF Outcome, RecsOf

LEMMA CountedOutcome ==
  ASSUME file = None \/ FromSomeone(file), NEW t \in Counted,
         NEW s \in StreamSet, NEW d \in DataSet, NEW o \in initCounted(t, s, d)
  PROVE  Outcome(o, t, s, d)
<1>1. t \in Streams /\ t \notin Indexed /\ t \notin Archives /\ t \notin {"CRD", "TXT"}
      /\ t /= "NUKLEI"
  BY TypeSets DEF Indexed
<1>3. CASE s.open \/ file = None
  <2>1. o = Init_(s, d, "error") \/ o = Init_(s, d, "ioerror")
    BY <1>3 DEF initCounted
  <2>2. o.stream = s /\ o.data = d /\ o.verdict \in {"error", "ioerror"}
    BY <2>1 DEF Init_
  <2> QED BY <1>1, <2>2, ClosedFacts DEF Outcome
<1>4. CASE ~s.open /\ file /= None /\ ~Recognized(t)
  <2>1. PICK p \in PartWay : o = Init_(p, d, "ioerror")
    BY <1>4 DEF initCounted
  <2> QED BY <1>1, <1>4, <2>1, PartOutcome
<1>5. CASE ~s.open /\ file /= None /\ Recognized(t)
  <2>0. file \in FileSet /\ file.recs \in Seq(Record) /\ file.count \in Nat
    BY <1>5, FileType DEF FileSet
  <2>1. o = Init_(Opened(file.recs), [mem |-> d.mem, n |-> file.count, idx |-> 0], "ok")
    BY <1>5 DEF initCounted
  <2>2. /\ o.stream = Opened(file.recs) /\ o.verdict = "ok"
        /\ o.data = [mem |-> d.mem, n |-> file.count, idx |-> 0]
    BY <2>1 DEF Init_
  <2>3. o.data \in DataSet /\ o.data.mem = d.mem /\ o.data.n = file.count /\ o.data.idx = 0
    BY <2>0, <2>2 DEF DataSet
  <2>4. t \in file.types
    BY <1>5 DEF Recognized
  <2> QED BY <1>1, <1>5, <2>0, <2>2, <2>3, <2>4, OpenedFacts DEF Outcome, RecsOf
<1> QED BY <1>3, <1>4, <1>5

LEMMA LinesOutcome ==
  ASSUME NEW t \in {"CRD", "TXT"}, file = None \/ (FromSomeone(file) /\ t \in file.types),
         NEW s \in StreamSet, NEW d \in DataSet, NEW o \in initLines(t, s, d)
  PROVE  Outcome(o, t, s, d)
<1>1. t \in Streams /\ t \notin Indexed /\ t \notin Archives /\ t \notin Counted
      /\ t /= "NUKLEI"
  BY TypeSets DEF Indexed
<1>2. CASE file = None
  <2>1. o = Init_(Closed, d, IF t = "CRD" THEN "ok" ELSE "ioerror")
    BY <1>2 DEF initLines
  <2>2. /\ o.stream = Closed /\ o.data = d /\ o.verdict = (IF t = "CRD" THEN "ok" ELSE "ioerror")
    BY <2>1 DEF Init_
  <2> QED BY <1>1, <1>2, <2>2, ClosedFacts DEF Outcome
<1>3. CASE file /= None
  <2>0. file \in FileSet /\ file.recs \in Seq(Record)
    BY <1>3, FileType DEF FileSet
  <2>1. o = Init_(Opened(file.recs), d, "ok")
    BY <1>3 DEF initLines
  <2>2. o.stream = Opened(file.recs) /\ o.data = d /\ o.verdict = "ok"
    BY <2>1 DEF Init_
  <2> QED BY <1>1, <1>3, <2>0, <2>2, OpenedFacts DEF Outcome, RecsOf
<1> QED BY <1>2, <1>3

LEMMA GridOutcome ==
  ASSUME file = None \/ FromSomeone(file), NEW t \in Grids,
         NEW s \in StreamSet, NEW d \in DataSet, NEW o \in initGrid(t, s, d)
  PROVE  Outcome(o, t, s, d)
<1>1. t \notin Streams /\ t \notin Archives /\ t \in Indexed /\ t \notin Counted
      /\ t /= "NUKLEI" /\ t \notin {"CRD", "TXT"}
  BY TypeSets DEF Indexed
<1>2. << >> \in Seq(Record)
  OBVIOUS
<1>3. CASE s.open \/ file = None
  <2>1. o = Init_(s, d, "error") \/ o = Init_(s, d, "ioerror")
    BY <1>3 DEF initGrid
  <2>2. o.stream = s /\ o.data = d /\ o.verdict \in {"error", "ioerror"}
    BY <2>1 DEF Init_
  <2> QED BY <1>1, <2>2 DEF Outcome
<1>4. CASE ~s.open /\ file /= None
  <2>1. file \in FileSet /\ file.recs \in Seq(Record) /\ file.count \in Nat
    BY <1>4, FileType DEF FileSet
  <2>2. CASE ~Recognized(t)
    <3>1. PICK m \in RefusedSize(t, d) : o = Init_(Opened(<< >>), [d EXCEPT !.n = m], "ioerror")
      BY <1>4, <2>2 DEF initGrid
    <3>2. m \in Nat
      BY <2>1 DEF RefusedSize, DataSet
    <3>3. o.stream = Opened(<< >>) /\ o.data = [d EXCEPT !.n = m] /\ o.verdict = "ioerror"
      BY <3>1 DEF Init_
    <3>4. o.data \in DataSet /\ o.data.idx = d.idx
      BY <3>2, <3>3 DEF DataSet
    <3>5. o.stream \in StreamSet /\ o.stream.rest = << >>
      BY <2>1, <3>3, OpenedEmpty
    <3> QED BY <1>1, <3>3, <3>4, <3>5 DEF Outcome
  <2>3. CASE Recognized(t) /\ ~Intact(t)
    <3>1. PICK m \in {file.recs, << >>} :
            o = Init_(Opened(<< >>), [d EXCEPT !.mem = m, !.n = file.count], "error")
      BY <1>4, <2>3 DEF initGrid
    <3>2. /\ o.stream = Opened(<< >>) /\ o.verdict = "error"
          /\ o.data = [d EXCEPT !.mem = m, !.n = file.count]
      BY <3>1 DEF Init_
    <3>3. o.data \in DataSet /\ o.data.idx = d.idx
      BY ZenonT(30), <1>2, <2>1, <3>2 DEF DataSet
    <3>4. o.stream \in StreamSet /\ o.stream.rest = << >>
      BY <2>1, <3>2, OpenedEmpty
    <3> QED BY <1>1, <3>2, <3>3, <3>4 DEF Outcome
  <2>4. CASE Recognized(t) /\ Intact(t)
    <3>1. o = Init_(Closed, [mem |-> file.recs, n |-> file.count, idx |-> 0], "ok")
      BY <1>4, <2>4 DEF initGrid
    <3>2. /\ o.stream = Closed /\ o.verdict = "ok"
          /\ o.data = [mem |-> file.recs, n |-> file.count, idx |-> 0]
      BY <3>1 DEF Init_
    <3>3. /\ o.data \in DataSet /\ o.data.mem = file.recs /\ o.data.n = file.count
          /\ o.data.idx = 0 /\ file.count = Len(file.recs)
      BY <2>1, <2>4, <3>2 DEF DataSet, Intact, AllThere
    <3>4. t \in file.types
      BY <2>4 DEF Recognized
    <3> QED BY <1>1, <1>4, <3>2, <3>3, <3>4, ClosedFacts, TypeSets DEF Outcome
  <2> QED BY <2>2, <2>3, <2>4
<1> QED BY <1>3, <1>4

LEMMA Smallest ==
  ASSUME NEW K \in SUBSET Nat, K /= {}
  PROVE  \E k \in K : \A j \in K : ~(j < k)
<1> DEFINE R == OpToRel(<, Nat)
<1>1. IsWellFoundedOn(R, Nat)
  BY NatLessThanWellFounded
<1>2. \A x, y \in Nat : y < x => <<y, x>> \in R
  BY DEF OpToRel
<1> HIDE DEF R
<1>3. PICK k \in K : \A j \in K : <<j, k>> \notin R
  BY <1>1, WFMin
<1> QED BY <1>2, <1>3

\* The kernels before the first that cannot be read.
LEMMA ReadableFacts ==
  ASSUME NEW t, NEW f \in FileSet
  PROVE  Readable(t, f) \in Seq(Record) /\ RangeOf(Readable(t, f)) \subseteq RangeOf(f.recs)
<1>1. f.recs \in Seq(Record) /\ << >> \in Seq(Record) /\ RangeOf(<< >>) = {}
  BY ClosedFacts DEF FileSet
<1>2. CASE Bad \notin RangeOf(f.recs) \/ t = "PCD"
  BY <1>1, <1>2 DEF Readable
<1>3. CASE ~(Bad \notin RangeOf(f.recs) \/ t = "PCD")
  <2> DEFINE First(k) == f.recs[k] = Bad /\ \A j \in 1 .. k - 1 : f.recs[j] /= Bad
             K == {k \in DOMAIN f.recs : f.recs[k] = Bad}
             c == CHOOSE k \in DOMAIN f.recs : First(k)
  <2>1. DOMAIN f.recs = 1 .. Len(f.recs) /\ Len(f.recs) \in Nat
    BY <1>1
  <2>2. PICK k0 \in DOMAIN f.recs : f.recs[k0] = Bad
    BY <1>3 DEF RangeOf
  <2>3. PICK k \in K : \A j \in K : ~(j < k)
    <3>1. K /= {}
      BY <2>2
    <3>2. K \in SUBSET Nat
      BY <2>1
    <3> HIDE DEF K
    <3> QED BY <3>1, <3>2, Smallest
  <2>4. First(k)
    <3>1. ASSUME NEW j \in 1 .. k - 1, f.recs[j] = Bad PROVE FALSE
      <4>1. j \in DOMAIN f.recs /\ j \in Nat /\ k \in Nat /\ j < k
        BY <2>1
      <4>2. j \in K
        BY <3>1, <4>1
      <4> QED BY <2>3, <4>1, <4>2
    <3> QED BY <3>1
  <2>5. c \in DOMAIN f.recs
    BY <2>4
  <2> HIDE DEF c, First
  <2>6. Readable(t, f) = SubSeq(f.recs, 1, c - 1)
    BY <1>3 DEF Readable, c, First
  <2>7. c - 1 \in 0 .. Len(f.recs)
    BY <2>1, <2>5
  <2> DEFINE m == c - 1
             q == SubSeq(f.recs, 1, m)
  <2> HIDE DEF m
  <2>8. m \in 0 .. Len(f.recs) /\ m \in Int /\ \A i \in 1 .. m : f.recs[i] \in Record
    BY <1>1, <2>1, <2>7 DEF m
  <2>9. /\ q \in Seq(Record) /\ Len(q) = (IF 1 <= m THEN m - 1 + 1 ELSE 0)
        /\ \A i \in 1 .. m - 1 + 1 : q[i] = f.recs[1 + i - 1]
    BY <2>8, SubSeqProperties
  <2> HIDE DEF q
  <2>10. Len(q) = m /\ \A i \in 1 .. m : q[i] = f.recs[i]
    <3>1. m - 1 + 1 = m /\ (1 <= m \/ m = 0)
      BY <2>8
    <3>2. \A i \in 1 .. m : 1 + i - 1 = i
      BY <2>8
    <3> QED BY <2>9, <3>1, <3>2
  <2>11. DOMAIN q = 1 .. m /\ \A i \in 1 .. m : i \in DOMAIN f.recs
    BY <2>1, <2>8, <2>9, <2>10
  <2>12. RangeOf(q) \subseteq RangeOf(f.recs)
    BY <2>10, <2>11 DEF RangeOf
  <2> QED BY <2>6, <2>9, <2>12 DEF q, m
<1> QED BY <1>2, <1>3

LEMMA ArchiveOutcome ==
  ASSUME NEW t \in Archives, file = None \/ (FromSomeone(file) /\ t \in file.types),
         NEW s \in StreamSet, NEW d \in DataSet, NEW o \in initArchive(t, s, d)
  PROVE  Outcome(o, t, s, d)
<1>1. /\ t \notin Streams /\ t \in Indexed /\ t \notin {"CRD", "TXT"} /\ t \notin Counted
      /\ t /= "NUKLEI" /\ t /= "CRD"
  BY TypeSets DEF Indexed
<1>2. << >> \in Seq(Record) /\ Len(<< >>) = 0
  OBVIOUS
<1>3. CASE file = None
  <2>1. o = Init_(s, [d EXCEPT !.mem = << >>, !.n = 0], "ioerror")
    BY <1>3 DEF initArchive
  <2>2. /\ o.stream = s /\ o.verdict = "ioerror" /\ o.data \in DataSet
        /\ o.data.mem = << >> /\ o.data.n = 0 /\ o.data.idx = d.idx
    BY <1>2, <2>1 DEF Init_, DataSet
  <2> QED BY <1>1, <1>2, <2>2, ClosedFacts DEF Outcome
<1>4. CASE file /= None
  <2> DEFINE m == Readable(t, file)
             l == [d EXCEPT !.mem = m, !.n = Len(m)]
  <2>1. file \in FileSet /\ file.recs \in Seq(Record)
    BY <1>4, FileType DEF FileSet
  <2>2. m \in Seq(Record) /\ RangeOf(m) \subseteq RangeOf(file.recs)
    BY <2>1, ReadableFacts
  <2>12. Odd \notin RangeOf(file.recs)
    BY <1>1, <1>4, OddRecords
  <2>5. Len(m) \in Nat
    BY <2>2
  <2>6. l \in DataSet /\ l.mem = m /\ l.n = Len(m) /\ l.idx = d.idx
    <3> DEFINE k == Len(m)
    <3>1. m \in Seq(Record) /\ k \in Nat
      BY <2>2, <2>5
    <3> HIDE DEF m, k
    <3>2. [d EXCEPT !.mem = m, !.n = k] \in DataSet
      BY <3>1 DEF DataSet
    <3>3. /\ [d EXCEPT !.mem = m, !.n = k].mem = m /\ [d EXCEPT !.mem = m, !.n = k].n = k
          /\ [d EXCEPT !.mem = m, !.n = k].idx = d.idx
      BY DEF DataSet
    <3> QED BY <3>2, <3>3 DEF k
  <2> DEFINE z == [l EXCEPT !.idx = 0]
  <2>10. Bad \in RangeOf(file.recs) => o = Init_(s, l, "ioerror")
    BY <1>4 DEF initArchive
  <2>11. Bad \notin RangeOf(file.recs) => o = Init_(s, z, "ok") /\ m = file.recs
    BY <1>4 DEF initArchive, Readable
  <2> HIDE DEF l, m
  <2>7. z \in DataSet /\ z.mem = m /\ z.n = Len(m) /\ z.idx = 0
    BY <2>6 DEF DataSet
  <2> HIDE DEF z
  <2>3. CASE Bad \in RangeOf(file.recs)
    <3>1. o.stream = s /\ o.verdict = "ioerror" /\ o.data = l
      BY <2>3, <2>10 DEF Init_
    <3> QED BY <1>1, <1>4, <2>2, <2>6, <2>12, <3>1 DEF Outcome, RecsOf
  <2>4. CASE Bad \notin RangeOf(file.recs)
    <3>1. o.stream = s /\ o.verdict = "ok" /\ o.data = z /\ m = file.recs
      BY <2>4, <2>11 DEF Init_
    <3> QED BY <1>1, <1>4, <2>2, <2>7, <2>12, <3>1 DEF Outcome, RecsOf
  <2> QED BY <2>3, <2>4
<1> QED BY <1>3, <1>4

LEMMA DocumentOutcome ==
  ASSUME file = None \/ FromSomeone(file), NEW s \in StreamSet, NEW d \in DataSet,
         NEW o \in initDocument(s, d)
  PROVE  Outcome(o, "NUKLEI", s, d)
<1> DEFINE t == "NUKLEI"
<1>1. t \notin Streams /\ t \in Indexed /\ t \notin {"CRD", "TXT"} /\ t \notin Counted
      /\ t \notin Archives
  BY TypeSets DEF Indexed
<1>2. << >> \in Seq(Record)
  OBVIOUS
<1>3. CASE Recognized(t)
  <2>1. file /= None /\ t \in file.types /\ file.recs \in Seq(Record) /\ Len(file.recs) \in Nat
    BY <1>3, FileType DEF Recognized, FileSet
  <2>2. o = Init_([s EXCEPT !.open = TRUE],
                  [mem |-> file.recs, n |-> Len(file.recs), idx |-> 0], "ok")
    BY <1>3 DEF initDocument
  <2>3. /\ o.stream \in StreamSet /\ o.stream.rest = s.rest /\ o.stream.open
        /\ o.verdict = "ok" /\ o.data \in DataSet
        /\ o.data.mem = file.recs /\ o.data.n = Len(file.recs) /\ o.data.idx = 0
    <3>1. /\ o.stream = [s EXCEPT !.open = TRUE] /\ o.verdict = "ok"
          /\ o.data = [mem |-> file.recs, n |-> Len(file.recs), idx |-> 0]
      BY <2>2 DEF Init_
    <3>2. o.stream \in StreamSet /\ o.stream.rest = s.rest /\ o.stream.open
      BY <3>1 DEF StreamSet
    <3>3. o.data \in DataSet /\ o.data.mem = file.recs /\ o.data.n = Len(file.recs)
          /\ o.data.idx = 0
      BY <2>1, <3>1 DEF DataSet
    <3> QED BY <3>1, <3>2, <3>3
  <2> QED BY <1>1, <2>1, <2>3 DEF Outcome
<1>4. CASE ~Recognized(t)
  <2>1. PICK root \in BOOLEAN :
          o = Init_([s EXCEPT !.open = root], [d EXCEPT !.mem = << >>], "ioerror")
    BY <1>4 DEF initDocument
  <2>2. o.stream = [s EXCEPT !.open = root] /\ o.data = [d EXCEPT !.mem = << >>]
        /\ o.verdict = "ioerror"
    BY <2>1 DEF Init_
  <2>3. o.stream \in StreamSet /\ o.stream.rest = s.rest
    BY <2>2 DEF StreamSet
  <2>4. o.data \in DataSet /\ o.data.idx = d.idx
    BY <1>2, <2>2 DEF DataSet
  <2> QED BY <1>1, <2>2, <2>3, <2>4 DEF Outcome
<1> QED BY <1>3, <1>4

LEMMA InitOutcome ==
  ASSUME file = None \/ FromSomeone(file), NEW t \in Type,
         t \in {"CRD", "TXT"} \union Archives /\ file /= None => t \in file.types,
         NEW s \in StreamSet, NEW d \in DataSet, NEW o \in init(t, s, d)
  PROVE  Outcome(o, t, s, d)
<1>1. CASE t \in {"CRD", "TXT"}
  <2>1. o \in initLines(t, s, d)
    BY <1>1 DEF init, Counted, Grids, Archives
  <2> QED BY <1>1, <2>1, LinesOutcome
<1>2. CASE t \in Counted
  <2>1. o \in initCounted(t, s, d)
    BY <1>2 DEF init, Counted, Grids, Archives
  <2> QED BY <1>2, <2>1, CountedOutcome
<1>3. CASE t \in Grids
  <2>1. o \in initGrid(t, s, d)
    BY <1>3 DEF init, Counted, Grids, Archives
  <2> QED BY <1>3, <2>1, GridOutcome
<1>4. CASE t \in Archives
  <2>1. o \in initArchive(t, s, d)
    BY <1>4 DEF init, Counted, Grids, Archives
  <2> QED BY <1>4, <2>1, ArchiveOutcome
<1>5. CASE t = "NUKLEI"
  <2>1. o \in initDocument(s, d)
    BY <1>5 DEF init, Counted, Grids, Archives
  <2> QED BY <1>5, <2>1, DocumentOutcome
<1>6. Streams = {"CRD", "TXT"} \union Counted
  BY DEF Streams, Counted
<1> QED BY <1>1, <1>2, <1>3, <1>4, <1>5, <1>6, TypeSets

\* A look at a file that is refused.
LEMMA RefusalOutcome ==
  ASSUME file = None \/ FromSomeone(file), type \in {"CRD", "TXT"} \union Archives,
         stream \in StreamSet, data \in DataSet, NEW o \in Refusal
  PROVE  Outcome(o, type, stream, data) /\ o.verdict = "ioerror"
<1>1. CASE type \in Archives
  <2>1. /\ type \notin Streams /\ type \in Indexed /\ type \notin {"CRD", "TXT"}
        /\ type \notin Counted
    BY <1>1, TypeSets DEF Indexed
  <2>2. o = Init_(stream, [data EXCEPT !.mem = << >>, !.n = 0], "ioerror")
    BY <1>1 DEF Refusal
  <2>3. << >> \in Seq(Record) /\ Len(<< >>) = 0
    OBVIOUS
  <2>4. /\ o.stream = stream /\ o.verdict = "ioerror" /\ o.data \in DataSet
        /\ o.data.mem = << >> /\ o.data.n = 0 /\ o.data.idx = data.idx
    BY <2>2, <2>3 DEF Init_, DataSet
  <2> QED BY <1>1, <2>1, <2>3, <2>4, ClosedFacts DEF Outcome
<1>2. CASE type \in {"CRD", "TXT"}
  <2>1. type \in Streams /\ type \notin Indexed /\ type \notin Archives /\ type \notin Counted
    BY <1>2, TypeSets DEF Indexed
  <2>2. CASE file = None
    <3>1. o = Init_(Closed, data, "ioerror")
      BY <2>1, <2>2 DEF Refusal
    <3>2. o.stream = Closed /\ o.data = data /\ o.verdict = "ioerror"
      BY <3>1 DEF Init_
    <3> QED BY <1>2, <2>1, <3>2, ClosedFacts DEF Outcome
  <2>3. CASE file /= None
    <3>1. PICK p \in PartWay \union {AtTheEnd} : o = Init_(p, data, "ioerror")
      BY <2>1, <2>3 DEF Refusal
    <3> QED BY <2>1, <2>3, <3>1, PartOutcome DEF Init_
  <2> QED BY <2>2, <2>3
<1> QED BY <1>1, <1>2

(***************************************************************************)
(* What one call of readObservation_() does                                *)
(***************************************************************************)
Reads(o) ==
  /\ o.stream \in StreamSet /\ o.stream.open = stream.open /\ o.stream.eol = stream.eol
  /\ RangeOf(o.stream.rest) \subseteq RangeOf(stream.rest)
  /\ o.data \in DataSet /\ o.data.mem = data.mem /\ o.data.n = data.n
  /\ data.idx \in -1 .. data.n => o.data.idx \in -1 .. data.n
  /\ data.idx >= 0 => o.data.idx >= 0
  /\ type \in {"CRD", "TXT"} => o.data = data
  /\ type \in Indexed => o.stream = stream
  /\ o.out \in Item \union {Masked, "end", "error", "ioerror", "undefined"}
  /\ o.out \in Item => o.out \in RangeOf(stream.rest) \union RangeOf(data.mem)
  /\ o.out = "undefined" =>
       type \in Indexed /\ (data.n > Len(data.mem) \/ Odd \in RangeOf(data.mem))

LEMMA Distinct == Bad /= Odd /\ Bad /= Masked /\ Odd /= Masked /\ Masked \notin Item
                  /\ Bad \notin Item /\ Odd \notin Item
<1>1. Cardinality({Bad, Odd, Masked}) = 3 /\ {Bad, Odd, Masked} \intersect Item = {}
  OBVIOUS
<1>2. ASSUME NEW x, NEW y PROVE Cardinality({x, y}) /= 3
  <2>1. IsFiniteSet({x}) /\ Cardinality({x}) = 1
    BY FS_Singleton
  <2>2. {x, y} = {x} \union {y}
    OBVIOUS
  <2>3. Cardinality({x} \union {y}) = IF y \in {x} THEN Cardinality({x}) ELSE Cardinality({x}) + 1
    BY <2>1, FS_AddElement
  <2>4. Cardinality({x, y}) = 1 \/ Cardinality({x, y}) = 2
    BY <2>1, <2>2, <2>3
  <2> QED BY <2>4
<1>3. Bad = Odd => {Bad, Odd, Masked} = {Odd, Masked}
  OBVIOUS
<1>4. Bad = Masked => {Bad, Odd, Masked} = {Odd, Masked}
  OBVIOUS
<1>5. Odd = Masked => {Bad, Odd, Masked} = {Bad, Masked}
  OBVIOUS
<1> QED BY <1>1, <1>2, <1>3, <1>4, <1>5

LEMMA ReadFields ==
  ASSUME NEW s, NEW d, NEW out
  PROVE  Read(s, d, out).stream = s /\ Read(s, d, out).data = d /\ Read(s, d, out).out = out
BY DEF Read

\* A line that is read is the first of the rest, and the others remain.
LEMMA LineRead ==
  ASSUME stream \in StreamSet, ~NoLine
  PROVE  /\ Line \in Record /\ Line \in RangeOf(stream.rest)
         /\ Tail(stream.rest) \in Seq(Record)
         /\ RangeOf(Tail(stream.rest)) \subseteq RangeOf(stream.rest)
<1> DEFINE s == stream.rest
<1>1. s \in Seq(Record) /\ s /= << >>
  BY DEF StreamSet, NoLine
<1> HIDE DEF s
<1>2. /\ Len(s) \in Nat /\ Len(s) >= 1 /\ Head(s) = s[1] /\ s[1] \in Record
      /\ Tail(s) \in Seq(Record) /\ Len(Tail(s)) = Len(s) - 1
      /\ \A i \in 1 .. Len(s) - 1 : Tail(s)[i] = s[i + 1]
  BY <1>1, EmptySeq, HeadTailProperties
<1>3. DOMAIN s = 1 .. Len(s) /\ DOMAIN Tail(s) = 1 .. Len(s) - 1
  BY <1>1, <1>2
<1>4. RangeOf(Tail(s)) \subseteq RangeOf(s)
  <2>1. ASSUME NEW i \in 1 .. Len(s) - 1 PROVE i + 1 \in 1 .. Len(s)
    BY <1>2
  <2> QED BY <1>2, <1>3, <2>1 DEF RangeOf
<1>5. Head(s) \in RangeOf(s)
  BY <1>2, <1>3 DEF RangeOf
<1> QED BY <1>2, <1>4, <1>5 DEF s, Line

LEMMA StreamAfter ==
  ASSUME stream \in StreamSet
  PROVE  /\ AtEof \in StreamSet /\ AtEof.open = stream.open /\ AtEof.eol = stream.eol
         /\ AtEof.rest = stream.rest
         /\ ~NoLine =>
              /\ AfterLine \in StreamSet /\ AfterLine.open = stream.open
              /\ AfterLine.eol = stream.eol /\ AfterLine.rest = Tail(stream.rest)
              /\ AfterLine.good = (stream.eol \/ Tail(stream.rest) /= << >>)
              /\ [stream EXCEPT !.rest = Tail(@)] \in StreamSet
              /\ [stream EXCEPT !.rest = Tail(@)].open = stream.open
              /\ [stream EXCEPT !.rest = Tail(@)].eol = stream.eol
              /\ [stream EXCEPT !.rest = Tail(@)].good = stream.good
              /\ [stream EXCEPT !.rest = Tail(@)].rest = Tail(stream.rest)
<1>1. ~NoLine => Tail(stream.rest) \in Seq(Record)
  BY LineRead
<1>2. AtEof \in StreamSet /\ AtEof.open = stream.open /\ AtEof.eol = stream.eol
      /\ AtEof.rest = stream.rest
  BY DEF AtEof, StreamSet
<1>3. ASSUME ~NoLine
      PROVE  /\ [stream EXCEPT !.rest = Tail(@)] \in StreamSet
             /\ [stream EXCEPT !.rest = Tail(@)].open = stream.open
             /\ [stream EXCEPT !.rest = Tail(@)].eol = stream.eol
             /\ [stream EXCEPT !.rest = Tail(@)].good = stream.good
             /\ [stream EXCEPT !.rest = Tail(@)].rest = Tail(stream.rest)
  BY <1>1, <1>3 DEF StreamSet
<1>4. ASSUME ~NoLine
      PROVE  /\ AfterLine \in StreamSet /\ AfterLine.open = stream.open
             /\ AfterLine.eol = stream.eol /\ AfterLine.rest = Tail(stream.rest)
             /\ AfterLine.good = (stream.eol \/ Tail(stream.rest) /= << >>)
  <2>1. (stream.eol \/ Tail(stream.rest) /= << >>) \in BOOLEAN
    BY DEF StreamSet
  <2> DEFINE g == stream.eol \/ Tail(stream.rest) /= << >>
             r == Tail(stream.rest)
  <2>2. AfterLine = [[stream EXCEPT !.rest = r] EXCEPT !.good = g]
    BY DEF AfterLine, StreamSet
  <2>3. r \in Seq(Record)
    BY <1>1, <1>4
  <2> HIDE DEF g, r
  <2>4. [stream EXCEPT !.rest = r] \in StreamSet
        /\ [stream EXCEPT !.rest = r].rest = r
        /\ [stream EXCEPT !.rest = r].open = stream.open
        /\ [stream EXCEPT !.rest = r].eol = stream.eol
    BY <2>3 DEF StreamSet
  <2> DEFINE q == [stream EXCEPT !.rest = r]
  <2> HIDE DEF q
  <2>5. q \in StreamSet /\ q.rest = r /\ q.open = stream.open /\ q.eol = stream.eol
    BY <2>4 DEF q
  <2>6. g \in BOOLEAN
    BY <2>1 DEF g, r
  <2>7. AfterLine = [q EXCEPT !.good = g]
    BY <2>2 DEF q
  <2>8. AfterLine \in StreamSet /\ AfterLine.rest = r /\ AfterLine.open = q.open
        /\ AfterLine.eol = q.eol /\ AfterLine.good = g
    BY <2>5, <2>6, <2>7 DEF StreamSet
  <2> QED BY <2>5, <2>8 DEF g, r
<1> QED BY <1>2, <1>3, <1>4

\* The two streams that a record read leaves.
LEMMA LineLeft ==
  ASSUME stream \in StreamSet, NEW s, s = AtEof \/ (~NoLine /\ s = AfterLine)
  PROVE  /\ s \in StreamSet /\ s.open = stream.open /\ s.eol = stream.eol
         /\ RangeOf(s.rest) \subseteq RangeOf(stream.rest)
<1>1. CASE s = AtEof
  BY <1>1, StreamAfter
<1>2. CASE ~NoLine /\ s = AfterLine
  BY <1>2, StreamAfter, LineRead
<1> QED BY <1>1, <1>2

LEMMA CountingFacts ==
  ASSUME data \in DataSet
  PROVE  /\ Counting(1) \in DataSet /\ Counting(1).mem = data.mem
         /\ Counting(1).n = data.n /\ Counting(1).idx = data.idx + 1
         /\ data.idx \in Int /\ data.n \in Nat
         /\ data.mem \in Seq(Record)
BY DEF Counting, DataSet

LEMMA LinesRead ==
  ASSUME stream \in StreamSet, data \in DataSet, type \in {"CRD", "TXT"}
  PROVE  Reads(readLines)
<1>0. type \notin Indexed /\ data.mem \in Seq(Record)
  BY TypeSets DEF Indexed, DataSet
<1>1. CASE ~stream.open
  <2>1. readLines = Read(stream, data, "error")
    BY <1>1 DEF readLines
  <2> QED BY <1>0, <2>1, ReadFields DEF Reads, Results
<1>2. CASE stream.open /\ (~stream.good \/ NoLine)
  <2>1. readLines = Read(AtEof, data, "end")
    BY <1>2 DEF readLines
  <2> QED BY <1>0, <2>1, ReadFields, StreamAfter DEF Reads, Results
<1>3. CASE stream.open /\ ~(~stream.good \/ NoLine)
  <2>1. PICK out \in {Line, "end", "error"} :
          /\ readLines = Read(AfterLine, data, out)
          /\ out \in Unreadable => out \in {"end", "error"}
    BY <1>3 DEF readLines
  <2>2. out \in Item \union {Masked, "end", "error"}
    BY <1>3, <2>1, LineRead DEF Record, Results, Unreadable
  <2>3. out \in Item => out = Line
    BY <2>1 DEF Results
  <2>4. out /= "undefined"
    BY <2>2 DEF Results
  <2>5. ~NoLine
    BY <1>3
  <2> QED BY <1>0, <2>1, <2>2, <2>3, <2>4, <2>5, ReadFields, StreamAfter, LineRead DEF Reads
<1> QED BY <1>1, <1>2, <1>3

LEMMA OffRead ==
  ASSUME stream \in StreamSet, data \in DataSet, type = "OFF"
  PROVE  Reads(readOff)
<1>0. type \notin Indexed /\ type \notin {"CRD", "TXT"}
  BY TypeSets DEF Indexed, Streams, Grids, Archives
<1>1. ASSUME NEW out \in {"error", "end"}, readOff = Read(stream, data, out)
      PROVE  Reads(readOff)
  BY <1>0, <1>1, ReadFields DEF Reads, Results
<1>2. CASE ~stream.open
  BY <1>1, <1>2 DEF readOff
<1>3. CASE stream.open /\ (~stream.good \/ data.idx = data.n)
  BY <1>1, <1>3 DEF readOff
<1>4. CASE stream.open /\ ~(~stream.good \/ data.idx = data.n)
  <2>1. CASE NoLine
    <3>1. readOff = Read(AtEof, data, "ioerror")
      BY <1>4, <2>1 DEF readOff
    <3> QED BY <1>0, <3>1, ReadFields, StreamAfter DEF Reads, Results
  <2>2. CASE ~NoLine /\ Line \in Unreadable
    <3>1. readOff = Read(AfterLine, data, "ioerror")
      BY <1>4, <2>2 DEF readOff
    <3> QED BY <1>0, <2>2, <3>1, ReadFields, StreamAfter, LineRead DEF Reads, Results
  <2>3. CASE ~NoLine /\ Line \notin Unreadable
    <3>1. readOff = Read(AfterLine, Counting(1), Line)
      BY <1>4, <2>3 DEF readOff
    <3>2. Line \in Item \union {Masked} /\ Line /= "undefined"
      BY <2>3, LineRead DEF Record, Results, Unreadable
    <3>3. /\ data.idx \in -1 .. data.n => data.idx + 1 \in -1 .. data.n
          /\ data.idx >= 0 => data.idx + 1 >= 0
      <4>1. data.idx \in Int /\ data.n \in Nat /\ data.idx /= data.n
        BY <1>4, CountingFacts
      <4> QED BY <4>1
    <3>4. readOff.stream = AfterLine /\ readOff.data = Counting(1) /\ readOff.out = Line
      BY <3>1, ReadFields
    <3>5. Line \in RangeOf(stream.rest)
      BY <2>3, LineRead
    <3> QED BY <1>0, <2>3, <3>2, <3>3, <3>4, <3>5, LineLeft, CountingFacts DEF Reads
  <2> QED BY <2>1, <2>2, <2>3
<1> QED BY <1>2, <1>3, <1>4

LEMMA PlyRead ==
  ASSUME stream \in StreamSet, data \in DataSet, type = "PLY"
  PROVE  Reads(readPly)
<1>0. type \notin Indexed /\ type \notin {"CRD", "TXT"}
  BY TypeSets DEF Indexed, Streams, Grids, Archives
<1>1. ASSUME NEW out \in {"error", "end"}, readPly = Read(stream, data, out)
      PROVE  Reads(readPly)
  BY <1>0, <1>1, ReadFields DEF Reads, Results
<1>2. CASE ~stream.open
  BY <1>1, <1>2 DEF readPly
<1>3. CASE stream.open /\ data.idx = data.n
  BY <1>1, <1>3 DEF readPly
<1>4. CASE stream.open /\ ~(data.idx = data.n)
  <2>1. /\ data.idx \in -1 .. data.n => data.idx + 1 \in -1 .. data.n
        /\ data.idx >= 0 => data.idx + 1 >= 0
    <3>1. data.idx \in Int /\ data.n \in Nat /\ data.idx /= data.n
      BY <1>4, CountingFacts
    <3> QED BY <3>1
  <2>2. CASE NoLine
    <3>1. readPly = Read(AtEof, Counting(1), "error")
      BY <1>4, <2>2 DEF readPly
    <3>2. readPly.stream = AtEof /\ readPly.data = Counting(1) /\ readPly.out = "error"
      BY <3>1, ReadFields
    <3> QED BY <1>0, <2>1, <3>2, LineLeft, CountingFacts DEF Reads, Results
  <2>3. CASE ~NoLine
    <3>1. PICK out : out = (IF Line \in Unreadable THEN "error" ELSE Line)
                     /\ readPly = Read(AfterLine, Counting(1), out)
      BY <1>4, <2>3 DEF readPly
    <3>2. out \in Item \union {Masked, "error"} /\ out /= "undefined"
          /\ (out \in Item => out = Line)
      BY <2>3, <3>1, LineRead DEF Record, Results, Unreadable
    <3>3. readPly.stream = AfterLine /\ readPly.data = Counting(1) /\ readPly.out = out
      BY <3>1, ReadFields
    <3>4. Line \in RangeOf(stream.rest)
      BY <2>3, LineRead
    <3> QED BY <1>0, <2>1, <2>3, <3>2, <3>3, <3>4, LineLeft, CountingFacts DEF Reads
  <2> QED BY <2>2, <2>3
<1> QED BY <1>2, <1>3, <1>4

LEMMA VtkRead ==
  ASSUME stream \in StreamSet, data \in DataSet, type = "BUILTINVTK"
  PROVE  Reads(readVtk)
<1>0. type \notin Indexed /\ type \notin {"CRD", "TXT"}
  BY TypeSets DEF Indexed, Streams, Grids, Archives
<1>1. ASSUME NEW out \in {"error", "end"}, readVtk = Read(stream, data, out)
      PROVE  Reads(readVtk)
  BY <1>0, <1>1, ReadFields DEF Reads, Results
<1>2. CASE data.idx < 0
  BY <1>1, <1>2 DEF readVtk
<1>3. CASE ~(data.idx < 0) /\ data.idx >= data.n
  BY <1>1, <1>3 DEF readVtk
<1>4. CASE ~(data.idx < 0) /\ ~(data.idx >= data.n)
  <2>1. /\ data.idx \in -1 .. data.n => data.idx + 1 \in -1 .. data.n
        /\ data.idx >= 0 => data.idx + 1 >= 0
    <3>1. data.idx \in Int /\ data.n \in Nat /\ ~(data.idx >= data.n)
      BY <1>4, CountingFacts
    <3> QED BY <3>1
  <2>2. CASE ~stream.good \/ NoLine \/ Line \in Unreadable
    <3>1. readVtk = Read(AtEof, Counting(1), "error")
      BY <1>4, <2>2 DEF readVtk
    <3>2. readVtk.stream = AtEof /\ readVtk.data = Counting(1) /\ readVtk.out = "error"
      BY <3>1, ReadFields
    <3> QED BY <1>0, <2>1, <3>2, LineLeft, CountingFacts DEF Reads, Results
  <2>3. CASE ~(~stream.good \/ NoLine \/ Line \in Unreadable)
    <3>1. readVtk = Read([stream EXCEPT !.rest = Tail(@)], Counting(1), Line)
      BY <1>4, <2>3 DEF readVtk
    <3>2. Line \in Item \union {Masked} /\ Line /= "undefined"
      BY <2>3, LineRead DEF Record, Results, Unreadable
    <3> DEFINE q == [stream EXCEPT !.rest = Tail(@)]
    <3>3. /\ q \in StreamSet /\ q.open = stream.open /\ q.eol = stream.eol
          /\ q.rest = Tail(stream.rest) /\ readVtk = Read(q, Counting(1), Line)
      BY <2>3, <3>1, StreamAfter
    <3> HIDE DEF q
    <3> QED BY <1>0, <2>1, <2>3, <3>2, <3>3, ReadFields, LineRead, CountingFacts DEF Reads
  <2> QED BY <2>2, <2>3
<1> QED BY <1>2, <1>3, <1>4

LEMMA IndexedRead ==
  ASSUME stream \in StreamSet, data \in DataSet, type \in Indexed, data.idx >= 0
  PROVE  Reads(readIndexed)
<1>0. type \notin {"CRD", "TXT"}
  BY TypeSets
<1>1. ASSUME NEW out \in {"error", "end"}, readIndexed = Read(stream, data, out)
      PROVE  Reads(readIndexed)
  BY <1>0, <1>1, ReadFields DEF Reads, Results
<1>2. CASE ~Inited
  BY <1>1, <1>2 DEF readIndexed
<1>3. CASE Inited /\ data.idx >= data.n
  BY <1>1, <1>3 DEF readIndexed
<1>4. CASE Inited /\ ~(data.idx >= data.n)
  <2>0. data.idx \in Int /\ data.n \in Nat /\ ~(data.idx >= data.n) /\ data.mem \in Seq(Record)
        /\ Len(data.mem) \in Nat /\ data.idx >= 0
    BY <1>4, CountingFacts
  <2>1. /\ data.idx \in -1 .. data.n => data.idx + 1 \in -1 .. data.n
        /\ data.idx >= 0 => data.idx + 1 >= 0
    BY <2>0
  <2>2. CASE data.idx >= Len(data.mem)
    <3>1. readIndexed = Read(stream, Counting(1), "undefined")
      BY <1>4, <2>2 DEF readIndexed
    <3>2. data.n > Len(data.mem)
      BY <2>0, <2>2
    <3> QED BY <1>0, <2>1, <3>1, <3>2, ReadFields, CountingFacts DEF Reads, Results
  <2>3. CASE ~(data.idx >= Len(data.mem))
    <3> DEFINE r == data.mem[data.idx + 1]
    <3>1. data.idx + 1 \in 1 .. Len(data.mem)
      BY <2>0, <2>3
    <3>2. r \in Record /\ r \in RangeOf(data.mem)
      BY <2>0, <3>1 DEF RangeOf
    <3>3. PICK out : out = Parsed(r) /\ readIndexed = Read(stream, Counting(1), out)
      BY <1>4, <2>3 DEF readIndexed
    <3> HIDE DEF r
    <3>4. /\ out \in Item \union {Masked, "error", "undefined"}
          /\ out = "undefined" => r = Odd
          /\ out \in Item => out = r
      <4>1. CASE r \in Item \union {Masked}
        <5>1. r /= Bad /\ r /= Odd
          BY <4>1, Distinct
        <5> QED BY <3>3, <4>1, <5>1 DEF Parsed, Results
      <4>2. CASE r \in {Bad, Odd}
        BY <3>3, <4>2, Distinct DEF Parsed, Results
      <4> QED BY <3>2, <4>1, <4>2 DEF Record
    <3> QED BY <1>0, <2>1, <3>2, <3>3, <3>4, ReadFields, CountingFacts DEF Reads
  <2> QED BY <2>2, <2>3
<1> QED BY <1>2, <1>3, <1>4

LEMMA RecordRead ==
  ASSUME stream \in StreamSet, data \in DataSet, type \in Type,
         type \in Indexed => data.idx >= 0
  PROVE  Reads(readObservation_)
<1>0. type \in Streams => type \notin Indexed
  BY TypeSets
<1>1. CASE type \in {"CRD", "TXT"}
  <2>1. readObservation_ = readLines
    BY <1>0, <1>1 DEF readObservation_, Streams
  <2> QED BY <1>1, <2>1, LinesRead
<1>2. CASE type = "OFF"
  <2>1. readObservation_ = readOff
    BY <1>0, <1>2 DEF readObservation_, Streams
  <2> QED BY <1>2, <2>1, OffRead
<1>3. CASE type = "PLY"
  <2>1. readObservation_ = readPly
    BY <1>0, <1>3 DEF readObservation_, Streams
  <2> QED BY <1>3, <2>1, PlyRead
<1>4. CASE type = "BUILTINVTK"
  <2>1. readObservation_ = readVtk
    BY <1>0, <1>4 DEF readObservation_, Streams
  <2> QED BY <1>4, <2>1, VtkRead
<1>5. CASE type \in Indexed
  <2>1. type \notin {"CRD", "TXT", "OFF", "PLY", "BUILTINVTK"}
    BY <1>5, TypeSets DEF Streams
  <2>2. readObservation_ = readIndexed
    BY <1>5, <2>1 DEF readObservation_
  <2> QED BY <1>5, <2>2, IndexedRead
<1> QED BY <1>1, <1>2, <1>3, <1>4, <1>5 DEF Type, Streams

(***************************************************************************)
(* The steps                                                               *)
(***************************************************************************)
Starts == {"create", "reset"}

\* The files are known, and a reader that has started found one of its format,
\* or is one of CRD, which does not look whether it is still there.
Known ==
  /\ file = None \/ FromSomeone(file)
  /\ src = None \/ FromSomeone(src)
  /\ failed \in BOOLEAN /\ whole \in BOOLEAN
  /\ ~failed =>
       /\ src = None => type = "CRD" /\ stream = Closed
       /\ src /= None => type \in src.types
       /\ type = "TXT" => seen /= None /\ Accepts(seen, "TXT")

\* Where there is no reader nothing is open, loaded or collected.
Absent ==
  /\ pc = "none" => type = None
  /\ pc \in {"none", "create"} =>
       stream = Closed /\ data = Nothing /\ head = None /\ src = None
  /\ pc \in {"none"} \union Starts => kc = << >> /\ failed
  /\ pc /= "none" => type \in Type

\* What the formats do not use stays as it was, and what they load is complete
\* unless the last start has thrown.
Loaded ==
  /\ type \in {"CRD", "TXT"} => data = Nothing
  /\ type \in Streams => data.mem = << >>
  /\ type \in Indexed => stream.rest = << >> /\ (pc /= "create" => data.idx >= 0)
  /\ type \in Archives => stream = Closed
  /\ type \in Archives \/ (type \in Indexed /\ ~failed) => data.n = Len(data.mem)

Answering ==
  /\ pc \in {"one", "all"} => result = "reading" \/ (pc = "all" /\ result \in Item)
  /\ pc \in Starts => result = "none"
  /\ pc = "one" => ~whole

\* While init_() looks at files, those it finds are of the type of the first.
Opening ==
  /\ pc \notin Starts => pass = 0
  /\ pc /= "create" => tries = << >>
  /\ pc \in Starts => pass < Opens(type)
  /\ pc = "reset" /\ type \in Streams \ {"PLY"} => stream = Closed
  /\ pc = "reset" /\ type = "BUILTINVTK" => data = Nothing
  /\ pass > 0 =>
       /\ seen /= None /\ Accepts(seen, type)
       /\ file /= None => type \in file.types
       /\ file /= None /\ file.of /= None => seen = file

Inv == TypeOK /\ Known /\ Absent /\ Loaded /\ Answering /\ Opening

\* createReader() and reset() begin, ...
Begun ==
  /\ \/ /\ pc = "none" /\ pc' = "create" /\ type' \in Type /\ tries' \in Seq(Type)
        /\ UNCHANGED <<stream, data>>
     \/ /\ pc = "idle" /\ pc' = "reset"
        /\ stream' = (IF type \in Streams \ {"PLY"} THEN Closed ELSE stream)
        /\ data' = (IF type = "BUILTINVTK" THEN Nothing ELSE data)
        /\ UNCHANGED <<type, tries>>
  /\ result' = "none" /\ kc' = << >> /\ failed' = TRUE /\ whole' = TRUE
  /\ pass' = 0 /\ starts < MaxStarts /\ starts' = starts + 1
  /\ UNCHANGED <<file, head, next, added, relinked, src>>

\* ... init_() looks at the file and goes on, ...
Looked ==
  /\ pc \in Starts /\ Passes
  /\ pass + 1 < Opens(type) /\ pass' = pass + 1 /\ seen' = (IF pass = 0 THEN file ELSE seen)
  /\ UNCHANGED <<file, type, stream, data, head, next, added, relinked, pc, result, kc, tries,
                 src, failed, starts, whole>>

\* ... the next type is tried, ...
Retried ==
  /\ pc = "create" /\ tries /= << >> /\ type' = Head(tries) /\ tries' = Tail(tries) /\ pass' = 0
  /\ UNCHANGED <<file, stream, data, head, next, added, relinked, pc, result, kc,
                 src, failed, starts, whole>>

\* ... there is no reader, as after it was destroyed, ...
Gone ==
  /\ pc \in {"create", "idle"}
  /\ \E r \in {"none", "error", "ioerror"} : Destroyed(r)
  /\ UNCHANGED <<file, next, added, relinked, starts>>

\* ... reset() throws, ...
NotReset(o) ==
  /\ pc = "reset" /\ Outcome(o, type, stream, data) /\ o.verdict \in {"error", "ioerror"}
  /\ \/ pass + 1 < Opens(type) /\ ~Passes /\ o \in Refusal
     \/ pass + 1 = Opens(type) /\ o \in init(type, stream, data)
  /\ pc' = "idle" /\ stream' = o.stream /\ data' = o.data /\ result' = o.verdict
  /\ pass' = 0 /\ src' = file
  /\ UNCHANGED <<file, type, head, next, added, relinked, kc, tries, seen, failed, starts, whole>>

\* ... or the reader has started.
Started(o) ==
  /\ pc \in Starts /\ pass + 1 = Opens(type)
  /\ Outcome(o, type, stream, data) /\ o.verdict = "ok"
  /\ pc' = "idle" /\ stream' = o.stream /\ data' = o.data
  /\ tries' = << >> /\ pass' = 0 /\ src' = file /\ failed' = FALSE
  /\ UNCHANGED <<file, type, head, next, added, relinked, result, kc, seen, starts, whole>>

\* A record that is read is passed over, leads into a chain without an end, is
\* returned, is of another kind than the first, or is collected; or nothing is
\* read, and the call ends.
ReadsRecord(o) ==
  /\ pc \in {"one", "all"} /\ Reads(o) /\ o = readObservation_
  /\ stream' = o.stream /\ data' = o.data
  /\ UNCHANGED <<file, type, head, next, added, relinked, tries, pass, seen,
                 src, failed, starts, whole>>
  /\ \/ /\ o.out \in Item /\ head /= None /\ ~Contained(o.out) /\ UNCHANGED <<pc, result, kc>>
     \/ o.out = Masked /\ UNCHANGED <<pc, result, kc>>
     \/ /\ o.out \in Item /\ head /= None /\ Cyclic(head)
        /\ pc' = "overflow" /\ UNCHANGED <<result, kc>>
     \/ o.out \in Item /\ pc = "one" /\ pc' = "idle" /\ result' = o.out /\ kc' = kc
     \/ /\ o.out \in Item /\ pc = "all" /\ kc /= << >> /\ KindOf[o.out] /= KindOf[kc[1]]
        /\ pc' = "idle" /\ result' = "mismatch" /\ kc' = kc
     \/ /\ o.out \in Item /\ (head = None \/ Contained(o.out)) /\ pc = "all" /\ pc' = pc
        /\ result' = o.out /\ kc' = Append(kc, o.out)
     \/ /\ o.out \in {"end", "error", "ioerror", "undefined"}
        /\ pc' = "idle" /\ result' = o.out /\ kc' = kc

\* The steps of the client and of others that start and read nothing.
OtherSteps ==
  \/ \E r \in Region : addRegionOfInterest(r)
  \/ readObservation \/ readObservations \/ Replace
  \/ \E t \in Type, b \in Batch : writeObservations(t, b)
  \/ UNCHANGED vars

LEMMA BeginSteps ==
  ASSUME Inv, (\E types \in Seq(Type) \ {<< >>} : createReaderOf(types)) \/ reset
  PROVE  Begun
<1>1. ASSUME NEW types \in Seq(Type) \ {<< >>}, createReaderOf(types) PROVE Begun
  <2>1. Head(types) \in Type /\ Tail(types) \in Seq(Type)
    BY HeadTailProperties
  <2>2. kc = << >>
    BY <1>1 DEF createReaderOf, Inv, Absent
  <2> QED BY <1>1, <2>1, <2>2 DEF createReaderOf, Begin, Begun, regions
<1>2. CASE reset
  BY <1>2 DEF reset, Begin, Begun, regions
<1> QED BY <1>1, <1>2

LEMMA CreateSteps ==
  ASSUME \/ createReaderOfAnyType
         \/ \E t \in Type : createReader(t)
  PROVE  \E types \in Seq(Type) \ {<< >>} : createReaderOf(types)
<1>1. ASSUME NEW t \in Type, createReader(t)
      PROVE  \E types \in Seq(Type) \ {<< >>} : createReaderOf(types)
  <2>1. <<t>> \in Seq(Type) /\ <<t>> /= << >>
    OBVIOUS
  <2> QED BY <1>1, <2>1 DEF createReader
<1>2. CASE createReaderOfAnyType
  <2>1. DetectionOrder \in Seq(Type) /\ DetectionOrder /= << >>
    BY DEF DetectionOrder, Type, Streams, Indexed, Grids, Archives
  <2> QED BY <1>2, <2>1 DEF createReaderOfAnyType
<1> QED BY <1>1, <1>2

LEMMA OpensFacts ==
  ASSUME NEW t \in Type
  PROVE  /\ Opens(t) \in 1 .. 3
         /\ Opens(t) > 1 <=> t \in {"CRD", "TXT"} \union Archives
<1>1. {"CRD", "TXT"} \intersect Archives = {}
  BY DEF Archives
<1> QED BY <1>1 DEF Opens

LEMMA ThrownSteps ==
  ASSUME Inv, pc \in Starts, NEW o, Thrown(o), Outcome(o, type, stream, data),
         o.verdict \in {"error", "ioerror"},
         \/ pass + 1 < Opens(type) /\ ~Passes /\ o \in Refusal
         \/ pass + 1 = Opens(type) /\ o \in init(type, stream, data)
  PROVE  Retried \/ Gone \/ NotReset(o)
<1>1. CASE pc = "reset"
  <2>1. NotReset(o)
    BY <1>1 DEF Thrown, NotReset, regions
  <2> QED BY <2>1
<1>2. CASE pc = "create" /\ o.verdict = "ioerror" /\ tries /= << >>
  BY <1>2 DEF Thrown, Retried, regions, history
<1>3. CASE pc = "create" /\ (o.verdict = "ioerror" => tries = << >>)
  <2>1. Destroyed(o.verdict) /\ UNCHANGED <<file, next, added, relinked, starts>>
    BY <1>3 DEF Thrown
  <2> QED BY <1>3, <2>1 DEF Gone
<1> QED BY <1>1, <1>2, <1>3 DEF Starts

LEMMA StartingSteps ==
  ASSUME Inv, Starting
  PROVE  Looked \/ Retried \/ Gone \/ \E o : NotReset(o) \/ Started(o)
<1>0. /\ pc \in Starts /\ type \in Type /\ (file = None \/ FromSomeone(file))
      /\ stream \in StreamSet /\ data \in DataSet /\ pass \in Nat
  BY DEF Starting, check, load, Starts, Inv, Absent, Known, TypeOK, StreamSet, DataSet
<1>1. CASE check
  <2>1. pass + 1 < Opens(type)
    BY <1>1 DEF check
  <2>2. type \in {"CRD", "TXT"} \union Archives
    <3>1. Opens(type) > 1
      BY <1>0, <2>1, OpensFacts
    <3> QED BY <1>0, <3>1, OpensFacts
  <2>3. CASE Passes
    BY <1>0, <1>1, <2>1, <2>3 DEF check, Looked, reader, regions, history
  <2>4. CASE ~Passes
    <3>1. PICK o \in Refusal : Thrown(o)
      BY <1>1, <2>4 DEF check
    <3>2. Outcome(o, type, stream, data) /\ o.verdict = "ioerror"
      BY <1>0, <2>2, RefusalOutcome
    <3> QED BY <1>0, <2>1, <2>4, <3>1, <3>2, ThrownSteps
  <2> QED BY <2>3, <2>4
<1>2. CASE load
  <2>1. pass + 1 = Opens(type)
    BY <1>2 DEF load
  <2>2. PICK o \in init(type, stream, data) :
          \/ /\ o.verdict = "ok"
             /\ pc' = "idle" /\ stream' = o.stream /\ data' = o.data
             /\ tries' = << >> /\ pass' = 0 /\ src' = file /\ failed' = FALSE
             /\ UNCHANGED <<file, type, regions, result, kc, seen, starts, whole>>
          \/ o.verdict /= "ok" /\ Thrown(o)
    BY <1>2 DEF load
  <2>3. type \in {"CRD", "TXT"} \union Archives /\ file /= None => type \in file.types
    <3>1. type \in {"CRD", "TXT"} \union Archives => Opens(type) > 1
      BY <1>0, OpensFacts
    <3>2. Opens(type) > 1 => pass > 0
      BY <1>0, <2>1
    <3> QED BY <3>1, <3>2 DEF Inv, Opening
  <2>4. Outcome(o, type, stream, data)
    BY <1>0, <2>3, InitOutcome
  <2>5. CASE o.verdict = "ok"
    BY <1>0, <2>1, <2>2, <2>4, <2>5 DEF Started, regions
  <2>6. CASE o.verdict /= "ok"
    <3>1. o.verdict \in {"error", "ioerror"}
      BY <2>4, <2>6 DEF Outcome
    <3> QED BY <1>0, <2>1, <2>2, <2>4, <2>6, <3>1, ThrownSteps
  <2> QED BY <2>5, <2>6
<1> QED BY <1>1, <1>2 DEF Starting

LEMMA RoundSteps ==
  ASSUME Inv, Round
  PROVE  ReadsRecord(readObservation_)
<1> DEFINE o == readObservation_
<1>1. pc \in {"one", "all"} /\ type \in Type
  BY DEF Round, Inv, Absent
<1>2. Reads(o)
  BY <1>1, RecordRead DEF Inv, TypeOK, Loaded, StreamSet, DataSet
<1>3. o.out \in Item \union {Masked, "end", "error", "ioerror", "undefined"}
  BY <1>2 DEF Reads
<1>4. /\ stream' = o.stream /\ data' = o.data
      /\ UNCHANGED <<file, type, head, next, added, relinked, tries, pass, seen,
                     src, failed, starts, whole>>
  BY DEF Round, regions, start, history
<1>5. o.out \in Item => Filter(o.out)
  BY DEF Round
<1>6. o.out = Masked => UNCHANGED <<pc, result, kc>>
  BY Distinct DEF Round
<1>7. o.out \notin Item /\ o.out /= Masked => pc' = "idle" /\ result' = o.out /\ UNCHANGED kc
  BY DEF Round
<1> HIDE DEF o
<1>8. o.out \in Item =>
        \/ head /= None /\ ~Contained(o.out) /\ UNCHANGED <<pc, result, kc>>
        \/ head /= None /\ Cyclic(head) /\ pc' = "overflow" /\ UNCHANGED <<result, kc>>
        \/ (head = None \/ Contained(o.out)) /\ Deliver(o.out)
  BY <1>5 DEF Filter
<1>9. Deliver(o.out) =>
        \/ pc = "one" /\ pc' = "idle" /\ result' = o.out /\ kc' = kc
        \/ /\ pc = "all" /\ kc /= << >> /\ KindOf[o.out] /= KindOf[kc[1]]
           /\ pc' = "idle" /\ result' = "mismatch" /\ kc' = kc
        \/ pc = "all" /\ pc' = pc /\ result' = o.out /\ kc' = Append(kc, o.out)
  BY <1>1 DEF Deliver
<1>10. \/ o.out \in Item \/ o.out = Masked
       \/ o.out \in {"end", "error", "ioerror", "undefined"} /\ o.out \notin Item /\ o.out /= Masked
  <2>1. {"end", "error", "ioerror", "undefined"} \intersect (Item \union {Masked}) = {}
    BY DEF Results
  <2> QED BY <1>3, <2>1
<1>11. ReadsRecord(o)
  <2>1. CASE o.out \in Item
    BY <1>1, <1>2, <1>4, <1>8, <1>9, <2>1 DEF ReadsRecord, o
  <2>2. CASE o.out = Masked
    BY <1>1, <1>2, <1>4, <1>6, <2>2 DEF ReadsRecord, o
  <2>3. CASE o.out \in {"end", "error", "ioerror", "undefined"} /\ o.out \notin Item
             /\ o.out /= Masked
    BY <1>1, <1>2, <1>4, <1>7, <2>3 DEF ReadsRecord, o
  <2> QED BY <1>10, <2>1, <2>2, <2>3
<1> QED BY <1>11 DEF o

\* What a step does, for the invariants below.
LEMMA Steps ==
  ASSUME Inv, [Next]_vars
  PROVE  \/ Begun \/ Looked \/ Retried \/ Gone
         \/ \E o : NotReset(o) \/ Started(o)
         \/ ReadsRecord(readObservation_)
         \/ OtherSteps
<1>1. destroyReader => Gone
  BY DEF destroyReader, Gone
<1>2. Round => ReadsRecord(readObservation_)
  BY RoundSteps
<1>3. ASSUME NEW t \in Type, createReader(t) PROVE Begun
  BY <1>3, CreateSteps, BeginSteps
<1>4. createReaderOfAnyType \/ reset => Begun
  BY CreateSteps, BeginSteps
<1>5. Starting => Looked \/ Retried \/ Gone \/ \E o : NotReset(o) \/ Started(o)
  BY StartingSteps
<1> QED BY <1>1, <1>2, <1>3, <1>4, <1>5 DEF Next, ClientNext, OtherSteps

\* The parts of the type that a start, a round and the regions change.
TypeParts ==
  /\ type \in Type \union {None} /\ stream \in StreamSet /\ data \in DataSet
  /\ data.idx \in -1 .. data.n \/ failed
  /\ pc \in {"none", "create", "reset", "idle", "one", "all", "overflow"}
  /\ result \in Results \union Item /\ kc \in Seq(Item)
  /\ starts \in 0 .. MaxStarts
StartParts == tries \in Seq(Type) /\ pass \in 0 .. 2
ChainParts == head \in Region \union {None} /\ next \in [Region -> Region \union {None}]

LEMMA Parts == TypeOK <=> TypeParts /\ StartParts /\ ChainParts
BY DEF TypeOK, TypeParts, StartParts, ChainParts, StreamSet, DataSet

LEMMA PartsPrimed == TypeOK' <=> TypeParts' /\ StartParts' /\ ChainParts'
BY DEF TypeOK, TypeParts, StartParts, ChainParts, StreamSet, DataSet

LEMMA InvInit == Init => Inv
<1> SUFFICES ASSUME Init PROVE Inv
  OBVIOUS
<1>1. << >> \in Seq(Type) /\ << >> \in Seq(Item)
  OBVIOUS
<1>2. TypeParts /\ StartParts /\ ChainParts
  BY <1>1, ClosedFacts DEF Init, TypeParts, StartParts, ChainParts, Results
<1>3. Known /\ Absent /\ Answering
  BY ClosedFacts DEF Init, Known, Absent, Answering, FromSomeone, Starts
<1>4. Opening
  BY DEF Init, Opening, Starts
<1>5. Loaded
  <2>1. type = None
    BY DEF Init
  <2>2. type \notin Streams /\ type \notin Indexed /\ type \notin Archives
        /\ type \notin {"CRD", "TXT"}
    BY <2>1, TypeSets DEF Indexed
  <2> QED BY <2>2 DEF Loaded
<1> QED BY <1>2, <1>3, <1>4, <1>5, Parts DEF Inv

LEMMA BegunKeeps ==
  ASSUME Inv, Begun
  PROVE  Inv'
<1>0. TypeParts /\ StartParts /\ ChainParts /\ Known /\ Absent /\ Loaded /\ Opening
  BY Parts DEF Inv
<1>1. /\ pc' \in Starts /\ type' \in Type /\ tries' \in Seq(Type) /\ pass' = 0
      /\ result' = "none" /\ kc' = << >> /\ failed' = TRUE /\ whole' = TRUE
      /\ UNCHANGED <<file, head, next, src>>
  BY <1>0 DEF Begun, Starts, Absent, StartParts
<1>2. starts' \in 0 .. MaxStarts
  BY <1>0 DEF Begun, TypeParts
<1>3. /\ stream' \in StreamSet /\ data' \in DataSet
      /\ stream' \in {stream, Closed} /\ data' \in {data, Nothing}
  BY <1>0, ClosedFacts DEF Begun, TypeParts
<1>4. TypeParts'
  <2>1. << >> \in Seq(Item)
    OBVIOUS
  <2> QED BY <1>1, <1>2, <1>3, <2>1 DEF TypeParts, Starts, Results
<1>5. StartParts' /\ ChainParts'
  BY <1>0, <1>1 DEF StartParts, ChainParts
<1>6. Known' /\ Answering'
  BY <1>0, <1>1 DEF Known, Answering, Starts
<1>7. CASE pc = "none" /\ pc' = "create" /\ UNCHANGED <<stream, data>>
  <2>1. stream' = Closed /\ data' = Nothing /\ head' = None /\ src' = None
    BY <1>0, <1>1, <1>7 DEF Absent
  <2>2. Absent'
    BY <1>1, <1>7, <2>1 DEF Absent
  <2>3. Loaded'
    BY <1>1, <1>7, <2>1, ClosedFacts DEF Loaded
  <2>4. Opening'
    <3>1. 0 < Opens(type')
      BY <1>1, OpensFacts
    <3> QED BY <1>1, <1>7, <3>1 DEF Opening, Starts
  <2> QED BY <1>4, <1>5, <1>6, <2>2, <2>3, <2>4, PartsPrimed DEF Inv
<1>8. CASE /\ pc = "idle" /\ pc' = "reset" /\ UNCHANGED <<type, tries>>
           /\ stream' = (IF type \in Streams \ {"PLY"} THEN Closed ELSE stream)
           /\ data' = (IF type = "BUILTINVTK" THEN Nothing ELSE data)
  <2>1. Absent'
    BY <1>1, <1>8 DEF Absent, Starts
  <2>2. type \notin Streams \/ type \notin Indexed
    BY TypeSets
  <2>3. "BUILTINVTK" \in Streams /\ Archives \subseteq Indexed
    BY DEF Streams, Indexed
  <2>4. Loaded'
    <3>1. type \in Indexed => stream' = stream /\ data' = data
      BY <1>8, <2>2, <2>3
    <3>2. type \in {"CRD", "TXT"} => data' = Nothing
      BY <1>0, <1>3 DEF Loaded
    <3>3. type \in Streams => data'.mem = << >>
      BY <1>0, <1>3, ClosedFacts DEF Loaded
    <3>4. type \in Archives => stream' = Closed /\ data' = data
      BY <1>0, <2>3, <3>1 DEF Loaded
    <3> QED BY <1>0, <1>1, <1>8, <3>1, <3>2, <3>3, <3>4 DEF Loaded
  <2>5. Opening'
    <3>1. 0 < Opens(type')
      BY <1>1, OpensFacts
    <3>2. tries' = << >>
      BY <1>0, <1>8 DEF Opening
    <3> QED BY <1>1, <1>8, <3>1, <3>2 DEF Opening, Starts
  <2> QED BY <1>4, <1>5, <1>6, <2>1, <2>4, <2>5, PartsPrimed DEF Inv
<1> QED BY <1>7, <1>8 DEF Begun

LEMMA LookedKeeps ==
  ASSUME Inv, Looked
  PROVE  Inv'
<1>0. TypeParts /\ StartParts /\ ChainParts /\ Known /\ Absent /\ Loaded /\ Answering /\ Opening
  BY Parts DEF Inv
<1>1. /\ pc \in Starts /\ pc' = pc /\ pass' = pass + 1 /\ pass + 1 < Opens(type)
      /\ type \in Type /\ failed /\ Opens(type) \in 1 .. 3 /\ pass \in 0 .. 2
      /\ UNCHANGED <<file, type, stream, data, head, next, result, kc, tries, src, failed,
                     starts, whole>>
  <2>1. /\ pc \in Starts /\ pc' = pc /\ pass' = pass + 1 /\ pass + 1 < Opens(type)
        /\ UNCHANGED <<file, type, stream, data, head, next, result, kc, tries, src, failed,
                       starts, whole>>
    BY DEF Looked
  <2>2. type \in Type /\ failed
    BY <1>0, <2>1 DEF Absent, Starts
  <2> QED BY <1>0, <2>1, <2>2, OpensFacts DEF StartParts
<1>2. TypeParts' /\ StartParts' /\ ChainParts'
  BY <1>0, <1>1 DEF TypeParts, StartParts, ChainParts
<1>3. Known' /\ Absent' /\ Answering'
  BY <1>0, <1>1 DEF Known, Absent, Answering
<1>4. Loaded'
  BY <1>0, <1>1 DEF Loaded
<1>5. /\ seen' /= None /\ Accepts(seen', type)
      /\ file /= None => type \in file.types
      /\ file /= None /\ file.of /= None => seen' = file
  <2>1. CASE pass = 0
    <3>1. Recognized(type) /\ seen' = file
      BY <2>1 DEF Looked, Passes
    <3> QED BY <3>1 DEF Recognized, Accepts
  <2>2. CASE pass > 0
    BY <1>0, <2>2 DEF Looked, Opening
  <2> QED BY <1>1, <2>1, <2>2
<1>6. Opening'
  BY <1>0, <1>1, <1>5 DEF Opening
<1> QED BY <1>2, <1>3, <1>4, <1>6, PartsPrimed DEF Inv

LEMMA RetriedKeeps ==
  ASSUME Inv, Retried
  PROVE  Inv'
<1>0. TypeParts /\ StartParts /\ ChainParts /\ Known /\ Absent /\ Loaded /\ Answering
  BY Parts DEF Inv
<1>1. type' \in Type /\ tries' \in Seq(Type)
  BY <1>0, HeadTailProperties DEF Retried, StartParts
<1>2. /\ pc = "create" /\ pc' = pc /\ pass' = 0
      /\ stream' = Closed /\ data' = Nothing /\ failed' /\ failed
      /\ UNCHANGED <<file, stream, data, head, next, result, kc, src, failed, starts, whole>>
  BY <1>0 DEF Retried, Absent, Starts
<1>3. TypeParts' /\ StartParts' /\ ChainParts'
  BY <1>0, <1>1, <1>2 DEF TypeParts, StartParts, ChainParts
<1>4. Known' /\ Absent' /\ Answering'
  BY <1>0, <1>1, <1>2 DEF Known, Absent, Answering, Starts
<1>5. Loaded'
  BY <1>2, ClosedFacts DEF Loaded
<1>6. Opening'
  <2>1. 0 < Opens(type')
    BY <1>1, OpensFacts
  <2> QED BY <1>2, <2>1 DEF Opening, Starts
<1> QED BY <1>3, <1>4, <1>5, <1>6, PartsPrimed DEF Inv

LEMMA GoneKeeps ==
  ASSUME Inv, Gone
  PROVE  Inv'
<1>0. TypeParts /\ StartParts /\ ChainParts /\ Known /\ Absent
  BY Parts DEF Inv
<1>1. /\ pc' = "none" /\ type' = None /\ stream' = Closed /\ data' = Nothing /\ head' = None
      /\ result' \in Results /\ kc' = << >> /\ tries' = << >> /\ pass' = 0
      /\ src' = None /\ failed' = TRUE /\ whole' = FALSE
      /\ UNCHANGED <<file, next, starts>>
  BY DEF Gone, Destroyed, Results
<1>2. TypeParts'
  <2>1. Nothing.idx \in Int /\ << >> \in Seq(Item)
    BY ClosedFacts
  <2> QED BY <1>0, <1>1, <2>1, ClosedFacts DEF TypeParts
<1>3. StartParts' /\ ChainParts'
  <2>1. << >> \in Seq(Type)
    OBVIOUS
  <2> QED BY <1>0, <1>1, <2>1 DEF StartParts, ChainParts
<1>4. Known' /\ Absent' /\ Answering' /\ Opening'
  <2>1. Known'
    BY <1>0, <1>1 DEF Known
  <2>2. Absent' /\ Answering'
    BY <1>1 DEF Absent, Answering, Starts
  <2>3. pc' \notin Starts /\ ~(pass' > 0)
    BY <1>1 DEF Starts
  <2>4. Opening'
    BY <1>1, <2>3 DEF Opening, Starts
  <2> QED BY <2>1, <2>2, <2>4
<1>5. Loaded'
  <2>1. type' \notin Streams /\ type' \notin Indexed /\ type' \notin Archives
        /\ type' \notin {"CRD", "TXT"}
    BY <1>1, TypeSets DEF Indexed
  <2> QED BY <2>1 DEF Loaded
<1> QED BY <1>2, <1>3, <1>4, <1>5, PartsPrimed DEF Inv

\* What init_() leaves has the form that the type of the reader asks for.
LEMMA OutcomeForm ==
  ASSUME Inv, pc \in Starts, NEW o, Outcome(o, type, stream, data)
  PROVE  /\ o.stream \in StreamSet /\ o.data \in DataSet /\ type \in Type
         /\ o.verdict \in {"ok", "error", "ioerror"}
         /\ type \in {"CRD", "TXT"} => o.data = Nothing
         /\ type \in Streams => o.data.mem = << >>
         /\ type \in Indexed => o.stream.rest = << >>
         /\ type \in Indexed /\ (pc = "reset" \/ o.verdict = "ok") => o.data.idx >= 0
         /\ type \in Archives => o.stream = Closed /\ o.data.n = Len(o.data.mem)
         /\ type \in Indexed /\ o.verdict = "ok" => o.data.n = Len(o.data.mem)
         /\ o.verdict = "ok" => o.data.idx \in -1 .. o.data.n
<1>0. Absent /\ Loaded /\ type \in Type
  BY DEF Inv, Absent, Starts
<1>1. /\ o.stream \in StreamSet /\ o.data \in DataSet
      /\ o.verdict \in {"ok", "error", "ioerror"}
      /\ o.data.idx \in {data.idx, 0}
  BY DEF Outcome
<1>2. type \in {"CRD", "TXT"} => o.data = Nothing
  BY <1>0 DEF Outcome, Loaded
<1>3. type \in Streams => o.data.mem = << >>
  BY <1>0 DEF Outcome, Loaded
<1>4. type \in Indexed => o.stream.rest = << >>
  BY <1>0 DEF Outcome, Loaded
<1>5. type \in Archives => o.stream = Closed /\ o.data.n = Len(o.data.mem)
  BY <1>0 DEF Outcome, Loaded
<1>6. type \in Indexed /\ o.verdict = "ok" => o.data.n = Len(o.data.mem) /\ o.data.idx = 0
  BY <1>0, TypeSets DEF Outcome
<1>7. type \in Indexed /\ pc = "reset" => o.data.idx >= 0
  <2>1. type \in Indexed /\ pc = "reset" => data.idx >= 0
    BY <1>0 DEF Loaded
  <2> QED BY <1>1, <2>1
<1>8. o.verdict = "ok" => o.data.idx \in -1 .. o.data.n
  <2>1. o.data.n \in Nat
    BY <1>1 DEF DataSet
  <2>2. ASSUME o.verdict = "ok" PROVE o.data.idx \in {-1, 0}
    <3>1. type \in Counted => o.data.idx = 0
      BY <2>2 DEF Outcome, Counted
    <3>2. type \in {"CRD", "TXT"} => o.data.idx = -1
      BY <1>2, ClosedFacts
    <3> QED BY <1>0, <1>6, <2>2, <3>1, <3>2 DEF Type, Streams, Counted
  <2> QED BY <2>1, <2>2
<1>9. type \in Indexed /\ o.verdict = "ok" => o.data.idx >= 0
  BY <1>6
<1> QED BY <1>0, <1>1, <1>2, <1>3, <1>4, <1>5, <1>6, <1>7, <1>8, <1>9

LEMMA StartedKeeps ==
  ASSUME Inv, NEW o, NotReset(o) \/ Started(o)
  PROVE  Inv'
<1>0. TypeParts /\ StartParts /\ ChainParts /\ Known /\ Absent /\ Answering /\ Opening
  BY Parts DEF Inv
<1>1. /\ pc \in Starts /\ Outcome(o, type, stream, data)
      /\ pc' = "idle" /\ stream' = o.stream /\ data' = o.data /\ pass' = 0 /\ src' = file
      /\ failed' = (o.verdict /= "ok")
      /\ tries' = << >>
      /\ result' \in {"none", "error", "ioerror"} /\ kc' = << >>
      /\ o.verdict = "ok" \/ pc = "reset"
      /\ UNCHANGED <<file, type, head, next, starts, whole, seen>>
  <2>1. CASE NotReset(o)
    BY <1>0, <2>1 DEF NotReset, Starts, Absent, Opening
  <2>2. CASE Started(o)
    BY <1>0, <2>2 DEF Started, Absent, Answering
  <2> QED BY <2>1, <2>2
<1>2. /\ o.stream \in StreamSet /\ o.data \in DataSet /\ type \in Type
      /\ type \in {"CRD", "TXT"} => o.data = Nothing
      /\ type \in Streams => o.data.mem = << >>
      /\ type \in Indexed => o.stream.rest = << >> /\ o.data.idx >= 0
      /\ type \in Archives => o.stream = Closed /\ o.data.n = Len(o.data.mem)
      /\ type \in Indexed /\ o.verdict = "ok" => o.data.n = Len(o.data.mem)
      /\ o.verdict = "ok" => o.data.idx \in -1 .. o.data.n
  BY <1>1, OutcomeForm
<1>3. StartParts' /\ ChainParts'
  <2>1. << >> \in Seq(Type)
    OBVIOUS
  <2> QED BY <1>0, <1>1, <2>1 DEF StartParts, ChainParts
<1>4. TypeParts'
  <2>1. << >> \in Seq(Item)
    OBVIOUS
  <2> QED BY <1>0, <1>1, <1>2, <2>1 DEF TypeParts, Results
<1>5. Loaded'
  BY <1>1, <1>2 DEF Loaded
<1>6. Absent' /\ Answering' /\ Opening'
  BY <1>0, <1>1, <1>2 DEF Absent, Answering, Opening, Starts
<1>7. Known'
  <2>1. ASSUME o.verdict = "ok", file = None PROVE type = "CRD" /\ stream' = Closed
    BY <1>1, <2>1 DEF Outcome
  <2>2. ASSUME o.verdict = "ok", file /= None PROVE type \in file.types
    BY <1>1, <2>2 DEF Outcome
  <2>3. ASSUME o.verdict = "ok", type = "TXT" PROVE seen /= None /\ Accepts(seen, "TXT")
    <3>1. Opens(type) > 1 /\ pass + 1 = Opens(type)
      BY <1>1, <1>2, <2>3, OpensFacts DEF Started, NotReset
    <3>2. pass > 0
      BY <1>0, <3>1 DEF StartParts
    <3> QED BY <1>0, <2>3, <3>2 DEF Opening
  <2>4. failed' \in BOOLEAN /\ whole' \in BOOLEAN
    BY <1>0, <1>1 DEF Known
  <2>5. src' = file /\ file' = file /\ seen' = seen /\ type' = type
    BY <1>1
  <2>6. (src' = None \/ FromSomeone(src')) /\ (file' = None \/ FromSomeone(file'))
    BY <1>0, <2>5 DEF Known
  <2>7. ~failed' => o.verdict = "ok"
    BY <1>1
  <2>8. ~failed' /\ src' = None => type' = "CRD" /\ stream' = Closed
    BY <2>1, <2>5, <2>7
  <2>9. ~failed' /\ src' /= None => type' \in src'.types
    BY <2>2, <2>5, <2>7
  <2>10. ~failed' /\ type' = "TXT" => seen' /= None /\ Accepts(seen', "TXT")
    BY <2>3, <2>5, <2>7
  <2> QED BY <2>4, <2>6, <2>8, <2>9, <2>10 DEF Known
<1> QED BY <1>3, <1>4, <1>5, <1>6, <1>7, PartsPrimed DEF Inv

\* A stream that is closed stays closed: there is nothing to read from it.
LEMMA ClosedStays ==
  ASSUME stream = Closed, type = "CRD"
  PROVE  readObservation_.stream = Closed
<1>1. ~stream.open
  BY ClosedFacts
<1>2. readObservation_ = readLines
  <2>1. type \notin Indexed
    BY TypeSets
  <2> QED BY <2>1 DEF readObservation_
<1>3. readLines = Read(stream, data, "error")
  BY <1>1 DEF readLines
<1> QED BY <1>2, <1>3, ReadFields

LEMMA RecordKeeps ==
  ASSUME Inv, ReadsRecord(readObservation_)
  PROVE  Inv'
<1> DEFINE o == readObservation_
<1>0. TypeParts /\ StartParts /\ ChainParts /\ Known /\ Absent /\ Loaded /\ Answering /\ Opening
  BY Parts DEF Inv
<1>1. /\ pc \in {"one", "all"} /\ Reads(o)
      /\ stream' = o.stream /\ data' = o.data
      /\ UNCHANGED <<file, type, head, next, tries, pass, seen, src, failed, starts, whole>>
  BY DEF ReadsRecord
<1>2. /\ pc' \in {"one", "all", "idle", "overflow"}
      /\ pc' \in {"one", "all"} => pc' = pc
      /\ result' \in {result, "mismatch", "end", "error", "ioerror", "undefined"} \union Item
      /\ kc' = kc \/ \E i \in Item : kc' = Append(kc, i)
      /\ pc' \in {"one", "all"} => result' = result \/ (pc = "all" /\ result' \in Item)
  BY DEF ReadsRecord
<1>3. type = "CRD" /\ stream = Closed => o.stream = Closed
  BY ClosedStays
<1> HIDE DEF o
<1>4. ChainParts' /\ StartParts'
  BY <1>0, <1>1 DEF ChainParts, StartParts
<1>5. Absent' /\ Answering' /\ Opening'
  <2>1. pc' /= "none" /\ pc' \notin Starts /\ pc \notin Starts /\ pc /= "none" /\ pc /= "create"
        /\ pc' /= "create"
    BY <1>1, <1>2 DEF Starts
  <2>2. Absent'
    BY <1>0, <1>1, <2>1 DEF Absent, Starts
  <2>3. Answering'
    BY <1>0, <1>1, <1>2, <2>1 DEF Answering
  <2>4. pass = 0 /\ tries = << >>
    BY <1>0, <2>1 DEF Opening
  <2>5. Opening'
    BY <1>1, <2>1, <2>4 DEF Opening, Starts
  <2> QED BY <2>2, <2>3, <2>5
<1>6. Known'
  BY <1>0, <1>1, <1>3 DEF Known
<1>7. /\ o.stream \in StreamSet /\ o.data \in DataSet /\ o.data.mem = data.mem /\ o.data.n = data.n
      /\ data.idx \in -1 .. data.n => o.data.idx \in -1 .. data.n
      /\ data.idx >= 0 => o.data.idx >= 0
      /\ type \in {"CRD", "TXT"} => o.data = data
      /\ type \in Indexed => o.stream = stream
  BY <1>1 DEF Reads
<1>8. Loaded'
  <2>1. pc /= "create"
    BY <1>1
  <2>2. Archives \subseteq Indexed
    BY DEF Indexed
  <2> QED BY <1>0, <1>1, <1>7, <2>1, <2>2 DEF Loaded
<1>9. kc' \in Seq(Item)
  BY <1>0, <1>2 DEF TypeParts
<1>10. result' \in Results \union Item
  BY <1>0, <1>2 DEF TypeParts, Results
<1>11. TypeParts'
  BY <1>0, <1>1, <1>2, <1>7, <1>9, <1>10 DEF TypeParts
<1> QED BY <1>4, <1>5, <1>6, <1>8, <1>11, PartsPrimed DEF Inv

\* The steps that leave what the reader holds, and begin a call or not.
LEMMA OthersKeep ==
  ASSUME Inv, OtherSteps
  PROVE  Inv'
<1>0. TypeParts /\ StartParts /\ ChainParts /\ Known /\ Absent /\ Loaded /\ Answering /\ Opening
  BY Parts DEF Inv
<1>1. UNCHANGED <<type, stream, data, tries, pass, seen, src, failed, starts>>
  BY DEF OtherSteps, addRegionOfInterest, readObservation, readObservations, Replace,
         writeObservations, vars, reader, history, start
<1>3. CASE \E r \in Region : addRegionOfInterest(r)
  <2>1. PICK r \in Region : addRegionOfInterest(r)
    BY <1>3
  <2>2. /\ head' \in {head, r} /\ pc = "idle" /\ pc' \in {"idle", "overflow"}
        /\ next' = next \/ \E last \in Chain(head) : next' = [next EXCEPT ![last] = r]
        /\ whole' \in BOOLEAN
        /\ UNCHANGED <<file, result, kc>>
    BY <2>1 DEF addRegionOfInterest, enqueue, Cyclic
  <2>3. ChainParts' /\ StartParts'
    BY <1>0, <1>1, <2>2 DEF ChainParts, StartParts
  <2>4. TypeParts' /\ Known' /\ Absent' /\ Answering'
    BY <1>0, <1>1, <2>2 DEF TypeParts, Known, Absent, Answering, Starts
  <2>5. Opening' /\ Loaded'
    BY <1>0, <1>1, <2>2 DEF Opening, Loaded, Starts
  <2> QED BY <2>3, <2>4, <2>5, PartsPrimed DEF Inv
<1>4. CASE readObservation \/ readObservations
  <2>1. /\ pc = "idle" /\ pc' \in {"one", "all"} /\ result' = "reading" /\ kc' \in {kc, << >>}
        /\ whole' \in BOOLEAN
        /\ pc' = "one" => ~whole'
        /\ UNCHANGED <<file, head, next>>
    BY <1>4 DEF readObservation, readObservations, regions
  <2>2. << >> \in Seq(Item)
    OBVIOUS
  <2>3. ChainParts' /\ StartParts' /\ Known' /\ Absent' /\ Answering'
    BY <1>0, <1>1, <2>1 DEF ChainParts, StartParts, Known, Absent, Answering, Starts
  <2>4. TypeParts'
    BY <1>0, <1>1, <2>1, <2>2 DEF TypeParts, Results
  <2>5. Opening' /\ Loaded'
    BY <1>0, <1>1, <2>1 DEF Opening, Loaded, Starts
  <2> QED BY <2>3, <2>4, <2>5, PartsPrimed DEF Inv
<1>5. CASE Replace
  <2>1. /\ file' \in File \union {None} /\ UNCHANGED <<pc, result, kc, whole, head, next>>
        /\ pass > 0 /\ file' /= None => type \in file'.types
    BY <1>5 DEF Replace, regions
  <2>2. file' = None \/ (FromSomeone(file') /\ file'.of = None)
    BY <2>1, FileAssumption DEF FromSomeone
  <2>3. ChainParts' /\ StartParts' /\ TypeParts' /\ Absent' /\ Answering' /\ Loaded'
    BY <1>0, <1>1, <2>1 DEF ChainParts, StartParts, TypeParts, Absent, Answering, Loaded
  <2>4. Known'
    BY <1>0, <1>1, <2>1, <2>2 DEF Known
  <2>5. Opening'
    BY <1>0, <1>1, <2>1, <2>2 DEF Opening
  <2> QED BY <2>3, <2>4, <2>5, PartsPrimed DEF Inv
<1>6. CASE \E t \in Type, b \in Batch : writeObservations(t, b)
  <2>1. PICK t \in Type, b \in Batch : writeObservations(t, b)
    BY <1>6
  <2>2. /\ pc = "none" /\ result' \in {"error", "none"} /\ UNCHANGED <<pc, kc, whole, head, next>>
        /\ \/ file' = file \/ file' = Emptied
           \/ file' = Written(t, b) /\ ~Refused(t, b) /\ ~BreaksOff(t, b)
    BY <2>1 DEF writeObservations, regions
  <2>3. file' = None \/ FromSomeone(file')
    BY <1>0, <2>2 DEF Known, FromSomeone, FromClient
  <2>4. ChainParts' /\ StartParts' /\ TypeParts' /\ Known' /\ Absent' /\ Answering' /\ Loaded'
    <3>1. ChainParts' /\ StartParts' /\ Known' /\ Absent' /\ Loaded'
      BY <1>0, <1>1, <2>2, <2>3 DEF ChainParts, StartParts, Known, Absent, Loaded
    <3>2. Answering' /\ TypeParts'
      BY <1>0, <1>1, <2>2 DEF Answering, TypeParts, Results, Starts
    <3> QED BY <3>1, <3>2
  <2>5. pass = 0
    BY <1>0, <2>2 DEF Opening, Starts
  <2>6. Opening'
    BY <1>0, <1>1, <2>2, <2>5 DEF Opening, Starts
  <2> QED BY <2>4, <2>6, PartsPrimed DEF Inv
<1>7. CASE UNCHANGED vars
  <2>1. UNCHANGED <<file, pc, result, kc, whole, head, next>>
    BY <1>7 DEF vars, regions
  <2>2. ChainParts' /\ StartParts' /\ TypeParts' /\ Known' /\ Absent' /\ Answering'
    BY <1>0, <1>1, <2>1 DEF ChainParts, StartParts, TypeParts, Known, Absent, Answering
  <2>3. Opening' /\ Loaded'
    BY <1>0, <1>1, <2>1 DEF Opening, Loaded
  <2> QED BY <2>2, <2>3, PartsPrimed DEF Inv
<1> QED BY <1>3, <1>4, <1>5, <1>6, <1>7 DEF OtherSteps

LEMMA InvNext == Inv /\ [Next]_vars => Inv'
<1> SUFFICES ASSUME Inv, [Next]_vars PROVE Inv'
  OBVIOUS
<1> QED BY Steps, BegunKeeps, LookedKeeps, RetriedKeeps, GoneKeeps, StartedKeeps, RecordKeeps,
           OthersKeep

LEMMA Invariant == Spec => []Inv
BY InvInit, InvNext, PTL DEF Spec

\* A reader, its file, its regions and the collection stay of their types, and
\* the index of a reader whose last start succeeded stays within its records.
THEOREM TypeCorrect == Spec => []TypeOK
<1>1. Inv => TypeOK
  BY DEF Inv
<1> QED BY <1>1, Invariant, PTL

(***************************************************************************)
(* What a reader gives                                                     *)
(***************************************************************************)
\* While a reader starts, and when it fails to, nothing has been read.
LEMMA FailingFrames ==
  ASSUME Inv, Begun \/ Looked \/ Retried \/ Gone \/ \E o : NotReset(o)
  PROVE  /\ failed' = TRUE /\ kc' = << >>
         /\ result' \in {"none", "error", "ioerror"}
<1>0. /\ pc \in Starts => result = "none" /\ kc = << >> /\ failed = TRUE
      /\ "create" \in Starts /\ "reset" \in Starts
  BY DEF Inv, Absent, Answering, Known, Starts
<1>1. CASE Begun
  BY <1>1 DEF Begun
<1>2. CASE Looked
  BY <1>0, <1>2 DEF Looked
<1>3. CASE Retried
  BY <1>0, <1>3 DEF Retried
<1>4. CASE Gone
  BY <1>4 DEF Gone, Destroyed
<1>5. ASSUME NEW o, NotReset(o) PROVE failed' = TRUE /\ kc' = << >> /\ result' \in {"error", "ioerror"}
  <2>1. pc = "reset" /\ UNCHANGED <<kc, failed>> /\ result' \in {"error", "ioerror"}
    BY <1>5 DEF NotReset
  <2> QED BY <1>0, <2>1
<1> QED BY <1>1, <1>2, <1>3, <1>4, <1>5

\* A start that succeeds, too, begins with nothing.
LEMMA StartFrames ==
  ASSUME Inv, NEW o, Started(o)
  PROVE  /\ failed' = FALSE /\ kc' = << >> /\ result' = "none" /\ whole' = whole
         /\ type \in Type /\ UNCHANGED <<type, seen, head>> /\ src' = file
<1>1. pc \in Starts /\ UNCHANGED <<type, result, kc, seen, whole, head>> /\ failed' = FALSE
      /\ src' = file
  BY DEF Started
<1> QED BY <1>1 DEF Inv, Absent, Answering, Starts

LEMMA OtherFrames ==
  ASSUME OtherSteps
  PROVE  /\ UNCHANGED <<type, stream, data, tries, pass, seen, src, failed, starts>>
         /\ result' \in {result, "reading"} \/ (pc = "none" /\ result' \in {"none", "error"})
         /\ kc' \in {kc, << >>}
         /\ whole' => whole
<1>1. ASSUME NEW r \in Region, addRegionOfInterest(r)
      PROVE  UNCHANGED <<type, stream, data, tries, pass, seen, src, failed, starts, result, kc>>
             /\ (whole' => whole)
  BY <1>1 DEF addRegionOfInterest, reader, start, history
<1>2. readObservation \/ readObservations =>
        UNCHANGED <<type, stream, data, tries, pass, seen, src, failed, starts>>
        /\ result' = "reading" /\ kc' \in {kc, << >>} /\ (whole' => whole)
  BY DEF readObservation, readObservations, reader, start, history
<1>3. Replace => UNCHANGED <<type, stream, data, tries, pass, seen, src, failed, starts, result,
                             kc, whole>>
  BY DEF Replace, reader, start, history
<1>4. ASSUME NEW t \in Type, NEW b \in Batch, writeObservations(t, b)
      PROVE  /\ UNCHANGED <<type, stream, data, tries, pass, seen, src, failed, starts, kc, whole>>
             /\ pc = "none" /\ result' \in {"none", "error"}
  BY <1>4 DEF writeObservations, reader, start, history
<1>5. UNCHANGED vars => UNCHANGED <<type, stream, data, tries, pass, seen, src, failed, starts,
                                    result, kc, whole>>
  BY DEF vars, reader, start, history
<1> QED BY <1>1, <1>2, <1>3, <1>4, <1>5 DEF OtherSteps

\* What a reader holds, and what it has given, is of the file of its last start.
Held ==
  /\ type \in Archives => Odd \notin RangeOf(data.mem)
  /\ ~failed \/ type \in (Streams \ {"PLY"}) \union Archives =>
       /\ RangeOf(stream.rest) \subseteq RecsOf(src)
       /\ RangeOf(data.mem) \subseteq RecsOf(src)
       /\ RangeOf(kc) \subseteq RecsOf(src)
       /\ result \in Item => result \in RecsOf(src)

LEMMA HeldInit == Init => Held
<1> SUFFICES ASSUME Init PROVE Held
  OBVIOUS
<1>1. failed /\ type = None
  BY DEF Init
<1>2. type \notin Streams /\ type \notin Archives
  BY <1>1, TypeSets
<1> QED BY <1>1, <1>2 DEF Held

LEMMA Appended ==
  ASSUME NEW s \in Seq(Item), NEW i \in Item
  PROVE  RangeOf(Append(s, i)) \subseteq RangeOf(s) \union {i}
<1>1. /\ Len(s) \in Nat /\ Append(s, i) \in Seq(Item) /\ Len(Append(s, i)) = Len(s) + 1
      /\ \A k \in 1 .. Len(s) : Append(s, i)[k] = s[k]
      /\ Append(s, i)[Len(s) + 1] = i
  BY AppendProperties
<1>2. DOMAIN s = 1 .. Len(s) /\ DOMAIN Append(s, i) = 1 .. Len(s) + 1
  BY <1>1
<1>3. ASSUME NEW k \in 1 .. Len(s) + 1 PROVE k \in 1 .. Len(s) \/ k = Len(s) + 1
  BY <1>1
<1> QED BY <1>1, <1>2, <1>3 DEF RangeOf

\* Where a start is going on, or has failed.
LEMMA HeldFailing ==
  ASSUME Inv, Held, Begun \/ Looked \/ Retried \/ Gone
  PROVE  Held'
<1>0. Absent /\ Loaded /\ type' \in Type \union {None}
  <2>1. TypeOK'
    BY BegunKeeps, LookedKeeps, RetriedKeeps, GoneKeeps DEF Inv
  <2> QED BY <2>1, PartsPrimed DEF Inv, TypeParts
<1>1. failed' = TRUE /\ kc' = << >> /\ result' \notin Item
  <2>1. {"none", "error", "ioerror"} \intersect Item = {}
    BY DEF Results
  <2> QED BY <2>1, FailingFrames
<1>2. ASSUME stream' = Closed, data' = Nothing PROVE Held'
  BY <1>1, <1>2, ClosedFacts DEF Held
<1>3. CASE Begun
  <2>1. CASE pc = "none"
    <3>1. stream' = Closed /\ data' = Nothing
      BY <1>0, <1>3, <2>1 DEF Begun, Absent
    <3> QED BY <1>2, <3>1
  <2>2. CASE pc = "idle"
    <3>1. /\ type' = type /\ src' = src /\ data' \in {data, Nothing}
          /\ stream' = (IF type \in Streams \ {"PLY"} THEN Closed ELSE stream)
          /\ type \in Archives => data' = data
      <4>1. type = "BUILTINVTK" => type \notin Archives
        BY DEF Archives
      <4> QED BY <1>3, <2>2, <4>1 DEF Begun
    <3>2. type \in Streams \ {"PLY"} => data.mem = << >>
      BY <1>0 DEF Loaded
    <3>3. type \in Archives => stream = Closed
      BY <1>0 DEF Loaded
    <3>4. type \in Archives => type \notin Streams
      BY TypeSets DEF Indexed
    <3> QED BY <1>1, <3>1, <3>2, <3>3, <3>4, ClosedFacts DEF Held
  <2> QED BY <1>3, <2>1, <2>2 DEF Begun
<1>4. CASE Looked
  <2>1. UNCHANGED <<type, stream, data, kc, result, src, failed>>
    BY <1>4 DEF Looked
  <2> QED BY <2>1 DEF Held
<1>5. CASE Retried
  <2>1. stream' = Closed /\ data' = Nothing
    BY <1>0, <1>5 DEF Retried, Absent
  <2> QED BY <1>2, <2>1
<1>6. CASE Gone
  BY <1>2, <1>6 DEF Gone, Destroyed
<1> QED BY <1>3, <1>4, <1>5, <1>6

LEMMA HeldStarted ==
  ASSUME Inv, Held, NEW o, NotReset(o) \/ Started(o)
  PROVE  Held'
<1>0. Known /\ Absent /\ Loaded /\ Opening
  BY DEF Inv
<1>1. /\ pc \in Starts /\ Outcome(o, type, stream, data) /\ type' = type /\ src' = file
      /\ stream' = o.stream /\ data' = o.data /\ failed' = (o.verdict /= "ok")
      /\ o.verdict = "ok" \/ pc = "reset"
  BY <1>0 DEF NotReset, Started, Starts, Absent
<1>2. kc' = << >> /\ result' \notin Item
  <2>1. {"none", "error", "ioerror"} \intersect Item = {}
    BY DEF Results
  <2> QED BY <2>1, FailingFrames, StartFrames
<1>3. type \in Type /\ (type \in Streams \/ type \in Indexed) /\ Archives \subseteq Indexed
      /\ Streams \intersect Indexed = {}
  BY <1>0, <1>1, TypeSets DEF Absent, Starts, Indexed, Type
<1>4. type \in Archives => Odd \notin RangeOf(o.data.mem)
  BY <1>1 DEF Outcome
<1>5. type \in Streams => o.data.mem = << >>
  BY <1>0, <1>1 DEF Outcome, Loaded
<1>6. type \in Indexed => o.stream.rest = << >>
  BY <1>0, <1>1 DEF Outcome, Loaded
<1>7. CASE o.verdict = "ok"
  <2>1. type \in Indexed => RangeOf(o.data.mem) \subseteq RecsOf(file)
    <3>1. type \in Indexed => file /= None
      <4>1. "CRD" \notin Indexed
        BY TypeSets
      <4> QED BY <1>1, <1>7, <4>1 DEF Outcome
    <3> QED BY <1>1, <1>7, <3>1 DEF Outcome, RecsOf
  <2>2. type \in Streams => RangeOf(o.stream.rest) \subseteq RecsOf(file)
    <3>1. CASE file = None
      BY <1>1, <1>7, <3>1, ClosedFacts DEF Outcome
    <3>2. CASE file /= None /\ type \in Streams
      <4>1. o.stream = Opened(file.recs)
        BY <1>1, <1>7, <3>2 DEF Outcome
      <4> QED BY <3>2, <4>1 DEF Opened, RecsOf
    <3> QED BY <3>1, <3>2
  <2> QED BY <1>1, <1>2, <1>3, <1>4, <1>5, <1>6, <2>1, <2>2, ClosedFacts DEF Held
<1>8. CASE o.verdict /= "ok"
  <2>1. type \in Streams \ {"PLY"} => RangeOf(o.stream.rest) \subseteq RecsOf(file)
    BY <1>0, <1>1, <1>8 DEF Outcome, Opening
  <2>2. type \in Archives => RangeOf(o.data.mem) \subseteq RecsOf(file)
    BY <1>1 DEF Outcome
  <2> QED BY <1>1, <1>2, <1>3, <1>4, <1>5, <1>6, <1>8, <2>1, <2>2, ClosedFacts DEF Held
<1> QED BY <1>7, <1>8

LEMMA HeldNext == Inv /\ Held /\ [Next]_vars => Held'
<1> SUFFICES ASSUME Inv, Held, [Next]_vars PROVE Held'
  OBVIOUS
<1>1. ASSUME ReadsRecord(readObservation_) PROVE Held'
  <2> DEFINE o == readObservation_
  <2>1. /\ Reads(o) /\ stream' = o.stream /\ data' = o.data /\ UNCHANGED <<type, failed, src>>
        /\ result' \in {result, "mismatch", o.out}
        /\ kc' = kc \/ (o.out \in Item /\ kc' = Append(kc, o.out))
    BY <1>1 DEF ReadsRecord
  <2> HIDE DEF o
  <2>2. /\ RangeOf(o.stream.rest) \subseteq RangeOf(stream.rest) /\ o.data.mem = data.mem
        /\ o.out \in Item => o.out \in RangeOf(stream.rest) \union RangeOf(data.mem)
    BY <2>1 DEF Reads
  <2>3. RangeOf(kc') \subseteq RangeOf(kc) \union (IF o.out \in Item THEN {o.out} ELSE {})
    BY <2>1, Appended, Parts DEF Inv, TypeParts
  <2>4. "mismatch" \notin Item
    BY DEF Results
  <2> QED BY <2>1, <2>2, <2>3, <2>4 DEF Held
<1>2. ASSUME OtherSteps PROVE Held'
  <2>1. {"reading", "none", "error"} \intersect Item = {}
    BY DEF Results
  <2> QED BY <1>2, <2>1, OtherFrames, ClosedFacts DEF Held
<1> QED BY Steps, <1>1, <1>2, HeldFailing, HeldStarted

LEMMA HeldAlways == Spec => []Held
BY Invariant, HeldInit, HeldNext, PTL DEF Spec

\* After any reset(), one that throws included, a reader that reads its file as
\* it goes (PLY apart) or an archive gives nothing but what the file of that
\* reset() holds, the part of an archive that was loaded before an error too.
THEOREM GivesNothingStale == Spec => []NothingStale
<1>1. Held => NothingStale
  <2> SUFFICES ASSUME Held, result \in Item, type \in (Streams \ {"PLY"}) \union Archives
               PROVE  src /= None /\ result \in RangeOf(src.recs)
    BY DEF NothingStale
  <2>1. result \in RecsOf(src)
    BY DEF Held
  <2> QED BY <2>1 DEF RecsOf
<1> QED BY <1>1, HeldAlways, PTL

LEMMA DefinedInit == Init => DefinedOnceStarted
BY DEF Init, DefinedOnceStarted

LEMMA DefinedNext == Inv /\ Held /\ DefinedOnceStarted /\ [Next]_vars => DefinedOnceStarted'
<1> SUFFICES ASSUME Inv, Held, DefinedOnceStarted, [Next]_vars PROVE DefinedOnceStarted'
  OBVIOUS
<1>1. ASSUME Begun \/ Looked \/ Retried \/ Gone \/ \E o : NotReset(o) PROVE DefinedOnceStarted'
  BY <1>1, FailingFrames DEF DefinedOnceStarted
<1>2. ASSUME NEW o, Started(o) PROVE DefinedOnceStarted'
  BY <1>2, StartFrames DEF DefinedOnceStarted
<1>3. ASSUME ReadsRecord(readObservation_) PROVE DefinedOnceStarted'
  <2> DEFINE o == readObservation_
  <2>1. /\ Reads(o) /\ UNCHANGED <<type, failed, src>>
        /\ result' \in {result, "mismatch", o.out}
    BY <1>3 DEF ReadsRecord
  <2> HIDE DEF o
  <2>2. ASSUME o.out = "undefined"
        PROVE  \/ failed /\ type \in Grids \union {"NUKLEI"}
               \/ ~failed /\ type = "NUKLEI" /\ Odd \in RangeOf(src.recs)
    <3>1. type \in Indexed /\ (data.n > Len(data.mem) \/ Odd \in RangeOf(data.mem))
      BY <2>1, <2>2 DEF Reads
    <3>2. type \in Archives \/ (type \in Indexed /\ ~failed) => data.n = Len(data.mem)
      BY DEF Inv, Loaded
    <3>3. data.n \in Nat
      BY DEF Inv, TypeOK
    <3>4. data.n > Len(data.mem) => data.n /= Len(data.mem)
      <4> DEFINE m == Len(data.mem)
      <4>1. data.n = m => ~(data.n > m)
        BY <3>3
      <4> QED BY <4>1
    <3>5. CASE type \in Archives
      BY <3>1, <3>2, <3>4, <3>5 DEF Held
    <3>6. CASE type \notin Archives /\ failed
      BY <3>1, <3>6 DEF Indexed
    <3>7. CASE ~failed
      <4>1. Odd \in RecsOf(src)
        BY <3>1, <3>2, <3>4, <3>7 DEF Held
      <4>2. src /= None /\ Odd \in RangeOf(src.recs)
        BY <4>1 DEF RecsOf
      <4>3. type \in src.types /\ FromSomeone(src)
        BY <3>7, <4>2 DEF Inv, Known
      <4>4. type = "NUKLEI"
        BY <4>2, <4>3, OddRecords
      <4> QED BY <3>7, <4>2, <4>4
    <3>8. failed \in BOOLEAN
      BY DEF Inv, Known
    <3> QED BY <3>5, <3>6, <3>7, <3>8
  <2> QED BY <2>1, <2>2 DEF DefinedOnceStarted
<1>4. ASSUME OtherSteps PROVE DefinedOnceStarted'
  BY <1>4, OtherFrames DEF DefinedOnceStarted
<1> QED BY Steps, <1>1, <1>2, <1>3, <1>4

\* No reader that has started goes beyond its vectors, its collection or its
\* document, whatever its file declares, or uses a kernel that was not made, but
\* for NUKLEI at an orientation of an unknown domain.  A reader of a grid or of
\* an XML document whose reset() has thrown may.
THEOREM ReadsWithin == Spec => []DefinedOnceStarted
BY Invariant, HeldAlways, DefinedInit, DefinedNext, PTL DEF Spec

(***************************************************************************)
(* Kernels of several types                                                *)
(***************************************************************************)
\* The observations of a batch are of one type.
LEMMA OneKind ==
  ASSUME NEW b \in Batch, NEW i \in RangeOf(b), NEW j \in RangeOf(b)
  PROVE  i \in Item /\ j \in Item /\ KindOf[i] = KindOf[j]
<1> DEFINE K == {KindOf[b[k]] : k \in DOMAIN b}
<1>1. b \in Seq(Item) /\ Cardinality(K) <= 1
  BY BatchAssumption
<1>2. K \subseteq Kind /\ i \in Item /\ j \in Item /\ KindOf[i] \in K /\ KindOf[j] \in K
  BY <1>1 DEF RangeOf
<1> HIDE DEF K
<1>3. IsFiniteSet(Kind)
  <2>1. IsFiniteSet({} \union {"r3"} \union {"r3xs2"} \union {"r3xs2p"} \union {"se3"})
    BY ZenonT(30), FS_EmptySet, FS_AddElement
  <2>2. Kind = {} \union {"r3"} \union {"r3xs2"} \union {"r3xs2p"} \union {"se3"}
    BY DEF Kind
  <2> QED BY <2>1, <2>2
<1>4. IsFiniteSet(K)
  BY <1>2, <1>3, FS_Subset
<1>5. Cardinality(K) \in Nat
  BY <1>4, FS_CardinalityType
<1>6. Cardinality(K) = 0 \/ Cardinality(K) = 1
  BY <1>1, <1>5
<1>7. K /= {}
  BY <1>2
<1>8. Cardinality(K) = 1
  BY <1>4, <1>6, <1>7, FS_EmptySet
<1>9. \E x : K = {x}
  BY <1>4, <1>8, FS_Singleton
<1> QED BY <1>2, <1>9

\* What is kept of a batch has the types of the batch.
LEMMA KeptKind ==
  ASSUME NEW t, NEW b \in Batch, NEW i \in RangeOf(Kept(t, b))
  PROVE  i \in Item /\ \E j \in RangeOf(b) : KindOf[i] = KindOf[j]
<1>1. PICK k \in DOMAIN b : i = IF t \in Complete THEN b[k] ELSE Bare[b[k]]
  BY KeptType DEF RangeOf
<1>0. b \in Seq(Item)
  BY BatchAssumption
<1>2. b[k] \in Item /\ b[k] \in RangeOf(b)
  BY <1>0 DEF RangeOf
<1>3. i \in Item /\ KindOf[i] = KindOf[b[k]]
  BY <1>1, <1>2, BareAssumption
<1> QED BY <1>2, <1>3

\* Only TXT and NUKLEI write down kernels of two types.
LEMMA TwoKinds ==
  ASSUME NEW f, FromSomeone(f), NEW t \in f.types,
         NEW i \in RangeOf(f.recs) \intersect Item, NEW j \in RangeOf(f.recs) \intersect Item,
         KindOf[i] /= KindOf[j]
  PROVE  t \in {"TXT", "NUKLEI"}
<1>1. CASE f \in File
  <2>1. t \in Located => KindOf[i] = "r3" /\ KindOf[j] = "r3"
    BY <1>1, FileAssumption
  <2>2. t \in Archives => KindOf[i] = KindOf[j]
    BY <1>1, FileAssumption
  <2>3. t \in Type
    BY FileType DEF FileSet
  <2>4. t \in Located \/ t \in Archives \/ t \in {"TXT", "NUKLEI"}
    BY <2>3 DEF Type, Streams, Indexed, Located, Archives
  <2> QED BY <2>1, <2>2, <2>4
<1>2. ASSUME NEW u, NEW b, FromClient(f, u, b) PROVE FALSE
  <2>1. b \in Batch /\ f.recs = Kept(u, b)
    BY <1>2 DEF FromClient, Written
  <2>2. PICK x \in RangeOf(b) : KindOf[i] = KindOf[x]
    BY <2>1, KeptKind
  <2>3. PICK y \in RangeOf(b) : KindOf[j] = KindOf[y]
    BY <2>1, KeptKind
  <2> QED BY <2>1, <2>2, <2>3, OneKind
<1>3. CASE f = Emptied
  <2>1. RangeOf(f.recs) = {}
    BY <1>3 DEF Emptied, RangeOf
  <2> QED BY <2>1
<1> QED BY <1>1, <1>2, <1>3 DEF FromSomeone

\* Two observations of the file of a reader that started, of different types.
LEMMA ApartOnlyIfUnseen ==
  ASSUME Known, ~failed, NEW i \in RecsOf(src) \intersect Item,
         NEW j \in RecsOf(src) \intersect Item, KindOf[i] /= KindOf[j]
  PROVE  \/ type = "NUKLEI"
         \/ type = "TXT" /\ seen /= src
         \/ type = "TXT" /\ {KindOf[x] : x \in RangeOf(src.recs) \intersect Item} = {"r3xs2p", "se3"}
<1>1. /\ src /= None /\ FromSomeone(src) /\ type \in src.types /\ RecsOf(src) = RangeOf(src.recs)
  BY DEF Known, RecsOf
<1>2. type = "NUKLEI" \/ type = "TXT"
  BY <1>1, TwoKinds
<1>3. CASE type = "TXT" /\ seen = src
  <2>1. \A x, y \in RangeOf(src.recs) \ {Bad} : SameTokens(x, y)
    BY <1>3 DEF Known, Accepts
  <2>2. Bad \notin Item
    OBVIOUS
  <2>3. \A x \in RangeOf(src.recs) \intersect Item : SameTokens(i, x) /\ KindOf[x] \in Kind
    BY <1>1, <2>1, <2>2
  <2>4. SameTokens(i, j)
    BY <1>1, <2>3
  <2>5. "r3" \notin {KindOf[i], KindOf[j]} /\ KindOf[i] \in Kind /\ KindOf[j] \in Kind
    BY <1>1, <2>3, <2>4 DEF SameTokens
  <2>6. \A x \in RangeOf(src.recs) \intersect Item : KindOf[x] /= "r3xs2"
    <3>1. CASE src \in File
      BY <1>1, <1>3, <3>1, FileAssumption
    <3>2. ASSUME NEW u, NEW b, FromClient(src, u, b) PROVE FALSE
      <4>1. b \in Batch /\ src.recs = Kept(u, b)
        BY <3>2 DEF FromClient, Written
      <4>2. PICK x \in RangeOf(b) : KindOf[i] = KindOf[x]
        BY <1>1, <4>1, KeptKind
      <4>3. PICK y \in RangeOf(b) : KindOf[j] = KindOf[y]
        BY <1>1, <4>1, KeptKind
      <4> QED BY <4>1, <4>2, <4>3, OneKind
    <3>3. CASE src = Emptied
      <4>1. RangeOf(src.recs) = {}
        BY <3>3 DEF Emptied, RangeOf
      <4> QED BY <4>1
    <3> QED BY <1>1, <3>1, <3>2, <3>3 DEF FromSomeone
  <2>7. {KindOf[i], KindOf[j]} = {"r3xs2p", "se3"}
    BY <1>1, <2>5, <2>6 DEF Kind
  <2>8. \A x \in RangeOf(src.recs) \intersect Item : KindOf[x] \in {"r3xs2p", "se3"}
    BY <2>3, <2>5, <2>6 DEF SameTokens, Kind
  <2> QED BY <1>1, <1>3, <2>7, <2>8
<1> QED BY <1>2, <1>3

LEMMA MixedInit == Init => MixedOnlyIfUnseen
BY DEF Init, MixedOnlyIfUnseen

LEMMA MixedNext == Inv /\ Held /\ MixedOnlyIfUnseen /\ [Next]_vars => MixedOnlyIfUnseen'
<1> SUFFICES ASSUME Inv, Held, MixedOnlyIfUnseen, [Next]_vars PROVE MixedOnlyIfUnseen'
  OBVIOUS
<1>1. ASSUME Begun \/ Looked \/ Retried \/ Gone \/ \E o : NotReset(o) PROVE MixedOnlyIfUnseen'
  BY <1>1, FailingFrames DEF MixedOnlyIfUnseen
<1>2. ASSUME NEW o, Started(o) PROVE MixedOnlyIfUnseen'
  BY <1>2, StartFrames DEF MixedOnlyIfUnseen
<1>3. ASSUME ReadsRecord(readObservation_) PROVE MixedOnlyIfUnseen'
  <2> DEFINE o == readObservation_
  <2>1. /\ Reads(o) /\ UNCHANGED <<type, failed, src, seen>>
        /\ \/ result' \in {result, o.out} /\ result' /= "mismatch"
           \/ result' = result
           \/ /\ o.out \in Item /\ kc /= << >> /\ KindOf[o.out] /= KindOf[kc[1]]
              /\ result' = "mismatch"
    BY <1>3 DEF ReadsRecord, Results
  <2> HIDE DEF o
  <2>2. ASSUME o.out \in Item, kc /= << >>, KindOf[o.out] /= KindOf[kc[1]], ~failed
        PROVE  \/ type = "NUKLEI"
               \/ type = "TXT" /\ seen /= src
               \/ type = "TXT" /\ {KindOf[x] : x \in RangeOf(src.recs) \intersect Item}
                                    = {"r3xs2p", "se3"}
    <3>1. o.out \in RecsOf(src)
      BY <2>1, <2>2 DEF Reads, Held
    <3>2. kc[1] \in Item /\ kc[1] \in RangeOf(kc)
      <4>1. kc \in Seq(Item)
        BY DEF Inv, TypeOK
      <4>2. 1 \in DOMAIN kc
        BY <2>2, <4>1
      <4> QED BY <4>1, <4>2 DEF RangeOf
    <3>3. kc[1] \in RecsOf(src)
      BY <2>2, <3>2 DEF Held
    <3>4. Known
      BY DEF Inv
    <3> QED BY <2>2, <3>1, <3>2, <3>3, <3>4, ApartOnlyIfUnseen
  <2> QED BY <2>1, <2>2 DEF MixedOnlyIfUnseen
<1>4. ASSUME OtherSteps PROVE MixedOnlyIfUnseen'
  BY <1>4, OtherFrames DEF MixedOnlyIfUnseen
<1> QED BY Steps, <1>1, <1>2, <1>3, <1>4

\* Once init_() has accepted a file, readObservations() is not stopped midway by
\* a kernel of another type, but in NUKLEI, and in TXT when the kernels are of
\* R3XS2P and SE3, or when the file was replaced after it was looked at.
THEOREM MixedFilesRefused == Spec => []MixedOnlyIfUnseen
BY Invariant, HeldAlways, MixedInit, MixedNext, PTL DEF Spec

(***************************************************************************)
(* The chain of regions                                                    *)
(***************************************************************************)
\* As long as no region is added twice, the chain ends: a region that was not
\* added yet is linked to nothing, and nothing is linked to it.
Linked ==
  /\ head \in Region \union {None} /\ next \in [Region -> Region \union {None}]
  /\ added \subseteq Region /\ relinked \in BOOLEAN
  /\ ~relinked =>
       /\ head \in added \union {None}
       /\ \A r \in Region : next[r] \in added \union {None}
       /\ \A r \in Region \ added : next[r] = None
       /\ ~Cyclic(head)

\* A region put at the end of a chain is the new end of it.
LEMMA Enqueued ==
  ASSUME Linked, ~relinked, head /= None, NEW r \in Region \ added, head' = head,
         NEW last \in Chain(head), next[last] = None, next' = [next EXCEPT ![last] = r]
  PROVE  /\ last \in added
         /\ \E x \in Chain(head)' : next'[x] = None
<1>1. head \in added /\ added \subseteq Region
  BY DEF Linked
<1>2. last \in Region /\ \A S \in SUBSET Region :
         (head \in S /\ \A y \in S : next[y] \in S \union {None}) => last \in S
  BY DEF Chain
<1>3. last \in added
  BY <1>1, <1>2 DEF Linked
<1>4. /\ last /= r /\ r /= None /\ next'[last] = r /\ next'[r] = None
      /\ \A y \in Region \ {last} : next'[y] = next[y]
  BY <1>2, <1>3 DEF Linked
<1>5. ASSUME NEW S \in SUBSET Region, head \in S, \A y \in S : next'[y] \in S \union {None}
      PROVE  r \in S
  <2>1. CASE last \in S
    BY <1>4, <1>5, <2>1
  <2>2. CASE last \notin S
    <3>1. \A y \in S : next[y] \in S \union {None}
      BY <1>4, <1>5, <2>2
    <3> QED BY <1>2, <1>5, <2>2, <3>1
  <2> QED BY <2>1, <2>2
<1>6. r \in Chain(head)'
  BY <1>1, <1>5 DEF Chain
<1> QED BY <1>3, <1>4, <1>6

LEMMA SameRegions ==
  ASSUME Linked, UNCHANGED regions
  PROVE  Linked'
BY DEF Linked, regions, Cyclic, Chain

LEMMA AddLinks == ASSUME Linked, NEW r \in Region, addRegionOfInterest(r) PROVE Linked'
<1>1. added' = added \union {r} /\ relinked' = (relinked \/ r \in added)
  BY DEF addRegionOfInterest
<1>2. CASE head = None
  <2>1. head' = r /\ next' = next
    BY <1>2 DEF addRegionOfInterest
  <2>2. ASSUME ~relinked' PROVE ~Cyclic(head)'
    <3>1. next[r] = None /\ r /= None
      BY <1>1, <2>2 DEF Linked
    <3>2. r \in Chain(r)'
      BY <3>1 DEF Chain
    <3>3. (Cyclic(r))' => FALSE
      BY <2>1, <3>1, <3>2 DEF Cyclic
    <3> QED BY <2>1, <3>3 DEF Cyclic, Chain
  <2> QED BY <1>1, <2>1, <2>2 DEF Linked
<1>3. CASE head /= None /\ Cyclic(head)
  <2>1. relinked /\ head' = head /\ next' = next
    BY <1>3 DEF addRegionOfInterest, Linked
  <2> QED BY <1>1, <2>1 DEF Linked
<1>4. CASE head /= None /\ ~Cyclic(head)
  <2>1. head' = head /\ enqueue(r)
    BY <1>4 DEF addRegionOfInterest
  <2>2. PICK last \in Chain(head) : next[last] = None /\ next' = [next EXCEPT ![last] = r]
    BY <2>1 DEF enqueue
  <2>3. last \in Region /\ next' \in [Region -> Region \union {None}]
        /\ next'[last] = r /\ \A y \in Region \ {last} : next'[y] = next[y]
    BY <1>4, <2>2 DEF Linked, Chain
  <2>4. ASSUME ~relinked' PROVE last \in added /\ ~Cyclic(head)'
    <3>1. ~relinked /\ r \in Region \ added
      BY <1>1, <2>4
    <3> QED BY <1>4, <2>1, <2>2, <3>1, Enqueued DEF Cyclic
  <2> QED BY <1>1, <2>1, <2>3, <2>4 DEF Linked
<1> QED BY <1>2, <1>3, <1>4

OverflowInv == Linked /\ OverflowOnlyIfRelinked

LEMMA OverflowInit == Init => OverflowInv
BY DEF Init, OverflowInv, Linked, OverflowOnlyIfRelinked, Cyclic

LEMMA OverflowNext == Inv /\ OverflowInv /\ [Next]_vars => OverflowInv'
<1> SUFFICES ASSUME Inv, OverflowInv, [Next]_vars PROVE OverflowInv'
  OBVIOUS
<1> USE DEF OverflowInv
<1>1. ASSUME UNCHANGED regions, pc' = "overflow" => pc = "overflow" \/ Cyclic(head)
      PROVE  OverflowInv'
  <2>1. Linked' /\ relinked' = relinked
    BY <1>1, SameRegions DEF regions
  <2> QED BY <1>1, <2>1 DEF Linked, OverflowOnlyIfRelinked
<1>2. ASSUME Begun \/ Looked \/ Retried PROVE OverflowInv'
  BY <1>1, <1>2 DEF Begun, Looked, Retried, regions
<1>3. ASSUME NEW o, NotReset(o) \/ Started(o) PROVE OverflowInv'
  BY <1>1, <1>3 DEF NotReset, Started, regions
<1>4. ASSUME Gone PROVE OverflowInv'
  <2>1. head' = None /\ next' = next /\ added' = added /\ relinked' = relinked /\ pc' = "none"
    BY <1>4 DEF Gone, Destroyed
  <2> QED BY <2>1 DEF Linked, Cyclic, OverflowOnlyIfRelinked
<1>5. ASSUME ReadsRecord(readObservation_) PROVE OverflowInv'
  BY <1>1, <1>5 DEF ReadsRecord, regions
<1>6. ASSUME NEW r \in Region, addRegionOfInterest(r) PROVE OverflowInv'
  <2>1. Linked'
    BY <1>6, AddLinks
  <2>2. pc' = "overflow" => relinked'
    BY <1>6 DEF addRegionOfInterest, Linked
  <2> QED BY <2>1, <2>2 DEF OverflowOnlyIfRelinked
<1>7. ASSUME readObservation \/ readObservations PROVE OverflowInv'
  BY <1>1, <1>7 DEF readObservation, readObservations
<1>8. ASSUME NEW t \in Type, NEW b \in Batch, writeObservations(t, b) PROVE OverflowInv'
  BY <1>1, <1>8 DEF writeObservations
<1>9. ASSUME Replace \/ UNCHANGED vars PROVE OverflowInv'
  BY <1>1, <1>9 DEF Replace, vars
<1> QED BY Steps, <1>2, <1>3, <1>4, <1>5, <1>6, <1>7, <1>8, <1>9 DEF OtherSteps

\* contains() and enqueue() follow a chain that ends, for any number of regions
\* and readers, unless a region is added a second time.
THEOREM ChainsEnd == Spec => []OverflowOnlyIfRelinked
<1>1. OverflowInv => OverflowOnlyIfRelinked
  BY DEF OverflowInv
<1> QED BY Invariant, OverflowInit, OverflowNext, <1>1, PTL DEF Spec

(***************************************************************************)
(* The observations of a sequence of records                               *)
(***************************************************************************)
\* Induction: a set of numbers that holds 0 and what follows its members holds
\* all, or a smallest one would be missing.
LEMMA NatBySets == ASSUME NEW S \in SUBSET Nat, 0 \in S, \A n \in S : n + 1 \in S PROVE S = Nat
<1> DEFINE R == OpToRel(<, Nat)
           T == Nat \ S
<1>1. IsWellFoundedOn(R, Nat)
  BY NatLessThanWellFounded
<1>2. \A x, y \in Nat : y < x => <<y, x>> \in R
  BY DEF OpToRel
<1> HIDE DEF R
<1> SUFFICES ASSUME T /= {} PROVE FALSE
  OBVIOUS
<1>3. PICK x \in T : \A y \in T : <<y, x>> \notin R
  BY <1>1, WFMin
<1>4. x \in Nat /\ x /= 0 /\ x - 1 \in Nat /\ x - 1 < x /\ (x - 1) + 1 = x
  OBVIOUS
<1>5. x - 1 \in S
  BY <1>2, <1>3, <1>4
<1> QED BY <1>4, <1>5

\* The members of S among the last k elements, given those of the last k - 1.
Longer(S, s, f, k) ==
  IF k = 0 THEN << >>
  ELSE IF s[Len(s) - k + 1] \in S THEN <<s[Len(s) - k + 1]>> \o f[k - 1]
  ELSE f[k - 1]

LEMMA LongerType ==
  ASSUME NEW S, NEW s, NEW k, NEW f, k = 0 \/ f[k - 1] \in Seq(S)
  PROVE  Longer(S, s, f, k) \in Seq(S)
<1>1. << >> \in Seq(S)
  OBVIOUS
<1>2. ASSUME s[Len(s) - k + 1] \in S, f[k - 1] \in Seq(S)
      PROVE  <<s[Len(s) - k + 1]>> \o f[k - 1] \in Seq(S)
  <2> DEFINE i == s[Len(s) - k + 1]
             g == f[k - 1]
  <2>1. i \in S /\ g \in Seq(S)
    BY <1>2
  <2> HIDE DEF i, g
  <2>2. <<i>> \in Seq(S)
    BY <2>1
  <2>3. <<i>> \o g \in Seq(S)
    BY <2>1, <2>2, ConcatProperties
  <2> QED BY <2>3 DEF i, g
<1> QED BY <1>1, <1>2 DEF Longer

LEMMA PickedExist ==
  ASSUME NEW S, NEW s, Len(s) \in Nat
  PROVE  \E f : f = [k \in 0 .. Len(s) |-> Longer(S, s, f, k)] /\ f \in [0 .. Len(s) -> Seq(S)]
<1> DEFINE P == {m \in Nat : \E f \in [0 .. m -> Seq(S)] : \A k \in 0 .. m : f[k] = Longer(S, s, f, k)}
<1>1. 0 \in P
  <2> DEFINE f == [k \in 0 .. 0 |-> << >>]
  <2>1. << >> \in Seq(S)
    OBVIOUS
  <2>2. f \in [0 .. 0 -> Seq(S)]
    BY <2>1
  <2>3. \A k \in 0 .. 0 : k = 0 /\ f[k] = Longer(S, s, f, k)
    BY DEF Longer
  <2> QED BY <2>2, <2>3
<1>2. ASSUME NEW m \in P PROVE m + 1 \in P
  <2>1. m \in Nat /\ m + 1 \in Nat
    OBVIOUS
  <2>2. PICK f \in [0 .. m -> Seq(S)] : \A k \in 0 .. m : f[k] = Longer(S, s, f, k)
    OBVIOUS
  <2> DEFINE l == Longer(S, s, f, m + 1)
             g == [k \in 0 .. m + 1 |-> IF k = m + 1 THEN l ELSE f[k]]
  <2>3. m \in 0 .. m /\ (m + 1) - 1 = m /\ m + 1 /= 0
    BY <2>1
  <2>4. l \in Seq(S)
    BY <2>2, <2>3, LongerType
  <2> HIDE DEF l
  <2>5. \A k \in 0 .. m + 1 : k = m + 1 \/ (k \in 0 .. m /\ k /= m + 1)
    BY <2>1
  <2>6. g \in [0 .. m + 1 -> Seq(S)]
    BY <2>2, <2>4, <2>5
  <2>7. \A k \in 0 .. m : g[k] = f[k]
    BY <2>1
  <2> HIDE DEF g
  <2>8. ASSUME NEW k \in 0 .. m + 1 PROVE g[k] = Longer(S, s, g, k)
    <3>1. k = 0 \/ (k - 1 \in 0 .. m /\ g[k - 1] = f[k - 1])
      BY <2>1, <2>7
    <3>2. Longer(S, s, g, k) = Longer(S, s, f, k)
      BY <3>1 DEF Longer
    <3>3. CASE k = m + 1
      <4>1. g[k] = l
        BY <3>3 DEF g
      <4> QED BY <3>2, <3>3, <4>1 DEF l
    <3>4. CASE k \in 0 .. m
      BY <2>2, <2>7, <3>2, <3>4
    <3> QED BY <2>5, <3>3, <3>4
  <2> QED BY <2>1, <2>6, <2>8
<1>3. P = Nat
  <2> HIDE DEF P
  <2>1. P \subseteq Nat
    BY DEF P
  <2> QED BY <1>1, <1>2, <2>1, NatBySets
<1>4. Len(s) \in P
  BY <1>3
<1>5. PICK f \in [0 .. Len(s) -> Seq(S)] : \A k \in 0 .. Len(s) : f[k] = Longer(S, s, f, k)
  BY <1>4
<1>6. f = [k \in 0 .. Len(s) |-> Longer(S, s, f, k)]
  BY <1>5
<1> QED BY <1>5, <1>6

LEMMA PickedDef ==
  ASSUME NEW S, NEW s, Len(s) \in Nat
  PROVE  \A k \in 0 .. Len(s) : PickedOf(S, s)[k] = Longer(S, s, PickedOf(S, s), k)
<1>1. PickedOf(S, s) = CHOOSE f : f = [k \in 0 .. Len(s) |-> Longer(S, s, f, k)]
  BY DEF PickedOf, Longer
<1>2. \E f : f = [k \in 0 .. Len(s) |-> Longer(S, s, f, k)]
  BY PickedExist
<1>3. PickedOf(S, s) = [k \in 0 .. Len(s) |-> Longer(S, s, PickedOf(S, s), k)]
  BY <1>1, <1>2
<1> QED BY <1>3

LEMMA PickedType ==
  ASSUME NEW S, NEW s, Len(s) \in Nat
  PROVE  \A k \in 0 .. Len(s) : PickedOf(S, s)[k] \in Seq(S)
<1> DEFINE n == Len(s)
           f == PickedOf(S, s)
           P == {m \in Nat : m <= n => f[m] \in Seq(S)}
<1>0. n \in Nat /\ \A k \in 0 .. n : f[k] = Longer(S, s, f, k)
  BY PickedDef
<1> HIDE DEF f, n
<1>1. 0 \in P
  <2>1. f[0] = Longer(S, s, f, 0)
    BY <1>0
  <2> QED BY <2>1, LongerType
<1>2. ASSUME NEW m \in P PROVE m + 1 \in P
  <2>1. m \in Nat /\ m + 1 \in Nat /\ (m + 1 <= n => m <= n /\ m + 1 \in 0 .. n)
        /\ (m + 1) - 1 = m
    BY <1>0
  <2>2. m + 1 <= n => f[m] \in Seq(S) /\ f[m + 1] = Longer(S, s, f, m + 1)
    BY <1>0, <2>1
  <2>3. m + 1 <= n => f[m + 1] \in Seq(S)
    BY <2>1, <2>2, LongerType
  <2> QED BY <2>1, <2>3
<1>3. P = Nat
  <2> HIDE DEF P
  <2>1. P \subseteq Nat
    BY DEF P
  <2> QED BY <1>1, <1>2, <2>1, NatBySets
<1>4. \A k \in 0 .. n : f[k] \in Seq(S)
  <2> SUFFICES ASSUME NEW k \in 0 .. n PROVE f[k] \in Seq(S)
    OBVIOUS
  <2>1. k \in P /\ k <= n
    BY <1>0, <1>3
  <2> QED BY <2>1
<1> QED BY <1>4 DEF f, n

\* Sequences with the same last records have the same observations there.
LEMMA SameEnds ==
  ASSUME NEW S, NEW s, NEW t, Len(s) \in Nat, Len(t) \in Nat, NEW n \in Nat, n <= Len(s), n <= Len(t),
         \A k \in 1 .. n : s[Len(s) - k + 1] = t[Len(t) - k + 1]
  PROVE  PickedOf(S, s)[n] = PickedOf(S, t)[n]
<1> DEFINE f == PickedOf(S, s)
           g == PickedOf(S, t)
           P == {m \in Nat : m <= n => f[m] = g[m]}
<1>0. /\ \A k \in 0 .. n : f[k] = Longer(S, s, f, k)
      /\ \A k \in 0 .. n : g[k] = Longer(S, t, g, k)
  <2>1. \A k \in 0 .. n : k \in 0 .. Len(s) /\ k \in 0 .. Len(t)
    OBVIOUS
  <2> QED BY <2>1, PickedDef
<1> HIDE DEF f, g
<1>1. 0 \in P
  <2>1. 0 \in 0 .. n
    OBVIOUS
  <2>2. f[0] = Longer(S, s, f, 0) /\ g[0] = Longer(S, t, g, 0)
    BY <1>0, <2>1
  <2> QED BY <2>2 DEF Longer
<1>2. ASSUME NEW m \in P PROVE m + 1 \in P
  <2>1. m \in Nat /\ m + 1 \in Nat /\ (m + 1) - 1 = m /\ m + 1 /= 0
        /\ (m + 1 <= n => m <= n /\ m + 1 \in 0 .. n /\ m + 1 \in 1 .. n)
    OBVIOUS
  <2>2. ASSUME m + 1 <= n PROVE f[m + 1] = g[m + 1]
    <3>1. f[m] = g[m] /\ s[Len(s) - (m + 1) + 1] = t[Len(t) - (m + 1) + 1]
      BY <2>1, <2>2
    <3>2. f[m + 1] = Longer(S, s, f, m + 1) /\ g[m + 1] = Longer(S, t, g, m + 1)
      BY <1>0, <2>1, <2>2
    <3> QED BY <2>1, <3>1, <3>2 DEF Longer
  <2> QED BY <2>1, <2>2
<1>3. P = Nat
  <2> HIDE DEF P
  <2>1. P \subseteq Nat
    BY DEF P
  <2> QED BY <1>1, <1>2, <2>1, NatBySets
<1>4. n \in P /\ n <= n
  BY <1>3
<1>5. f[n] = g[n]
  BY <1>4
<1> QED BY <1>5 DEF f, g

LEMMA ItemsType ==
  ASSUME NEW S, NEW s \in Seq(S)
  PROVE  ItemsOf(s) \in Seq(Item)
<1>1. Len(s) \in Nat /\ Len(s) \in 0 .. Len(s)
  OBVIOUS
<1> QED BY <1>1, PickedType DEF ItemsOf, Picked

LEMMA ItemsNone == ItemsOf(<< >>) = << >>
<1>1. Len(<< >>) = 0 /\ 0 \in Nat /\ 0 \in 0 .. 0
  OBVIOUS
<1>2. PickedOf(Item, << >>)[0] = Longer(Item, << >>, PickedOf(Item, << >>), 0)
  BY <1>1, PickedDef
<1> QED BY <1>1, <1>2 DEF ItemsOf, Picked, Longer

LEMMA Consed ==
  ASSUME NEW S, NEW i \in S, NEW q \in Seq(S)
  PROVE  /\ <<i>> \o q /= << >> /\ Head(<<i>> \o q) = i /\ Tail(<<i>> \o q) = q
<1> DEFINE p == <<i>> \o q
           n == Len(q)
<1>1. <<i>> \in Seq(S) /\ Len(<<i>>) = 1 /\ <<i>>[1] = i /\ n \in Nat
  OBVIOUS
<1>2. p \in Seq(S) /\ Len(p) = 1 + n
      /\ \A k \in 1 .. 1 + n : p[k] = IF k <= 1 THEN <<i>>[k] ELSE q[k - 1]
  BY <1>1, ConcatProperties
<1> HIDE DEF p, n
<1>9. n \in Nat /\ Len(p) = 1 + n
  BY <1>1, <1>2 DEF n
<1>3. Len(p) /= 0 /\ 1 \in 1 .. 1 + n /\ Len(p) - 1 = n
  BY <1>9
<1>4. p /= << >> /\ p[1] = <<i>>[1]
  BY <1>2, <1>3, EmptySeq
<1>0. /\ Head(p) = p[1] /\ Tail(p) \in Seq(S) /\ Len(Tail(p)) = Len(p) - 1
      /\ \A k \in 1 .. Len(p) - 1 : Tail(p)[k] = p[k + 1]
  BY <1>2, <1>4, HeadTailProperties
<1>5. Len(Tail(p)) = n /\ \A k \in 1 .. n : Tail(p)[k] = p[k + 1]
  <2> QED BY <1>0, <1>3
<1>6. \A k \in 1 .. n : k + 1 \in 1 .. 1 + n /\ ~(k + 1 <= 1) /\ (k + 1) - 1 = k
  BY <1>1
<1>7. \A k \in 1 .. n : Tail(p)[k] = q[k]
  BY <1>2, <1>5, <1>6
<1>8. Tail(p) = q
  BY <1>0, <1>5, <1>7, SeqEqual DEF n
<1> QED BY <1>0, <1>1, <1>4, <1>8 DEF p

\* The first record is the first observation, or it is none.
LEMMA ItemsStep ==
  ASSUME NEW S, NEW s \in Seq(S), s /= << >>
  PROVE  /\ Head(s) \in Item =>
              /\ ItemsOf(s) /= << >> /\ Head(ItemsOf(s)) = Head(s)
              /\ ItemsOf(Tail(s)) = Tail(ItemsOf(s))
         /\ Head(s) \notin Item => ItemsOf(Tail(s)) = ItemsOf(s)
<1> DEFINE n == Len(s)
           t == Tail(s)
<1>1. n \in Nat /\ n >= 1 /\ Head(s) = s[1] /\ t \in Seq(S) /\ Len(t) = n - 1
      /\ \A i \in 1 .. n - 1 : t[i] = s[i + 1]
  BY EmptySeq, HeadTailProperties
<1> HIDE DEF n, t
<1>2. PickedOf(Item, s)[n] = Longer(Item, s, PickedOf(Item, s), n)
  BY <1>1, PickedDef DEF n
<1>3. PickedOf(Item, s)[n - 1] = PickedOf(Item, t)[n - 1]
  <2>1. \A k \in 1 .. n - 1 : /\ (n - 1) - k + 1 \in 1 .. n - 1
                              /\ ((n - 1) - k + 1) + 1 = n - k + 1
    BY <1>1
  <2>2. \A k \in 1 .. n - 1 : s[n - k + 1] = t[(n - 1) - k + 1]
    BY <1>1, <2>1
  <2>3. n - 1 \in Nat /\ n - 1 <= n /\ n - 1 <= n - 1
    BY <1>1
  <2>4. Len(s) = n /\ Len(t) = n - 1 /\ n \in Nat
    BY <1>1 DEF n
  <2> DEFINE m == n - 1
  <2>5. /\ m \in Nat /\ Len(s) \in Nat /\ Len(t) \in Nat /\ m <= Len(s) /\ m <= Len(t)
        /\ \A k \in 1 .. m : s[Len(s) - k + 1] = t[Len(t) - k + 1]
    BY <2>2, <2>3, <2>4
  <2> HIDE DEF m
  <2>6. PickedOf(Item, s)[m] = PickedOf(Item, t)[m]
    BY <2>5, SameEnds
  <2> QED BY <2>6 DEF m
<1>4. ItemsOf(t) = PickedOf(Item, s)[n - 1] /\ ItemsOf(s) = PickedOf(Item, s)[n]
  BY <1>1, <1>3 DEF ItemsOf, Picked, n
<1>5. n - n + 1 = 1 /\ n /= 0
  BY <1>1
<1>6. ItemsOf(s) = IF s[1] \in Item THEN <<s[1]>> \o ItemsOf(t) ELSE ItemsOf(t)
  BY <1>2, <1>4, <1>5 DEF Longer, n
<1>7. ItemsOf(t) \in Seq(Item)
  BY <1>1, ItemsType
<1> QED BY <1>1, <1>6, <1>7, Consed DEF t

LEMMA TakeProps ==
  ASSUME NEW S, NEW s \in Seq(S), NEW n \in Nat
  PROVE  /\ Take(s, n) \in Seq(S) /\ Len(Take(s, n)) = (IF n < Len(s) THEN n ELSE Len(s))
         /\ \A k \in 1 .. Len(Take(s, n)) : Take(s, n)[k] = s[k]
<1> DEFINE l == Len(s)
           m == IF n < l THEN n ELSE l
           q == SubSeq(s, 1, m)
<1>1. l \in Nat /\ \A i \in 1 .. l : s[i] \in S
  OBVIOUS
<1>2. m \in Nat /\ m <= l
  <2> HIDE DEF l
  <2> QED BY <1>1
<1>3. \A i \in 1 .. m : i \in 1 .. l
  <2> HIDE DEF l, m
  <2> QED BY <1>1, <1>2
<1>4. \A i \in 1 .. m : s[i] \in S
  BY <1>1, <1>3
<1> HIDE DEF l, m
<1>5. /\ q \in Seq(S) /\ Len(q) = IF 1 <= m THEN m - 1 + 1 ELSE 0
      /\ \A i \in 1 .. m - 1 + 1 : q[i] = s[1 + i - 1]
  BY <1>2, <1>4, SubSeqProperties
<1> HIDE DEF q
<1>6. m - 1 + 1 = m /\ (1 <= m \/ m = 0) /\ \A i \in 1 .. m : 1 + i - 1 = i
  BY <1>2
<1>7. Len(q) = m /\ \A i \in 1 .. m : q[i] = s[i]
  BY <1>5, <1>6
<1>8. Take(s, n) = q
  BY DEF Take, q, m, l
<1> QED BY <1>5, <1>7, <1>8 DEF m, l

LEMMA TakeStep ==
  ASSUME NEW S, NEW s \in Seq(S), s /= << >>, NEW n \in Nat, n >= 1
  PROVE  /\ Take(s, n) /= << >> /\ Head(Take(s, n)) = Head(s)
         /\ Take(Tail(s), n - 1) = Tail(Take(s, n))
<1> DEFINE l == Len(s)
           t == Tail(s)
           q == Take(s, n)
           p == Take(t, n - 1)
           u == Tail(q)
<1>1. l \in Nat /\ l >= 1 /\ Head(s) = s[1] /\ t \in Seq(S) /\ Len(t) = l - 1
      /\ \A i \in 1 .. l - 1 : t[i] = s[i + 1]
  BY EmptySeq, HeadTailProperties
<1>2. q \in Seq(S) /\ Len(q) = (IF n < l THEN n ELSE l) /\ \A k \in 1 .. Len(q) : q[k] = s[k]
  BY TakeProps
<1>3. n - 1 \in Nat
  OBVIOUS
<1> HIDE DEF l, t, q
<1>4. p \in Seq(S) /\ Len(p) = (IF n - 1 < Len(t) THEN n - 1 ELSE Len(t))
      /\ \A k \in 1 .. Len(p) : p[k] = t[k]
  BY <1>1, <1>3, TakeProps
<1> HIDE DEF p
<1>5. Len(q) \in Nat /\ Len(q) >= 1 /\ Len(p) = Len(q) - 1 /\ Len(q) <= l
  BY <1>1, <1>2, <1>4
<1>6. q /= << >> /\ Head(q) = q[1] /\ u \in Seq(S) /\ Len(u) = Len(q) - 1
      /\ \A i \in 1 .. Len(q) - 1 : u[i] = q[i + 1]
  BY <1>2, <1>5, EmptySeq, HeadTailProperties
<1> DEFINE m == Len(q)
<1>7. m \in Nat /\ m >= 1 /\ m <= l /\ Len(p) = m - 1 /\ Len(u) = m - 1
  BY <1>5, <1>6
<1> HIDE DEF u
<1>8. \A k \in 1 .. m - 1 : p[k] = t[k] /\ u[k] = q[k + 1]
  BY <1>4, <1>6, <1>7
<1>9. \A k \in 1 .. m : q[k] = s[k]
  BY <1>2
<1> HIDE DEF m
<1>10. 1 \in 1 .. m /\ \A k \in 1 .. m - 1 : k + 1 \in 1 .. m /\ k \in 1 .. l - 1
  BY <1>1, <1>7
<1>11. \A k \in 1 .. m - 1 : p[k] = u[k]
  BY <1>1, <1>8, <1>9, <1>10
<1>12. p = u
  BY <1>4, <1>6, <1>7, <1>11, SeqEqual DEF u
<1>13. Head(q) = Head(s)
  BY <1>1, <1>6, <1>9, <1>10
<1> QED BY <1>6, <1>12, <1>13 DEF q, p, u, t

LEMMA TakeNone ==
  ASSUME NEW S, NEW s \in Seq(S), NEW n \in Nat, n = 0 \/ s = << >>
  PROVE  Take(s, n) = << >>
<1>1. Take(s, n) \in Seq(S) /\ Len(Take(s, n)) = (IF n < Len(s) THEN n ELSE Len(s))
  BY TakeProps
<1>2. Len(s) \in Nat /\ (s = << >> => Len(s) = 0)
  OBVIOUS
<1>3. Len(Take(s, n)) = 0
  BY <1>1, <1>2
<1> QED BY <1>1, <1>3, EmptySeq

\* What is left from the k-th element on, and after it.
LEMMA RestStep ==
  ASSUME NEW S, NEW s \in Seq(S), NEW k \in Nat
  PROVE  /\ k = Len(s) => SubSeq(s, k + 1, Len(s)) = << >>
         /\ k = 0 => SubSeq(s, k + 1, Len(s)) = s
         /\ k < Len(s) =>
              LET q == SubSeq(s, k + 1, Len(s))
              IN  /\ q \in Seq(S) /\ q /= << >> /\ Head(q) = s[k + 1]
                  /\ SubSeq(s, (k + 1) + 1, Len(s)) = Tail(q)
<1> DEFINE n == Len(s)
           q == SubSeq(s, k + 1, n)
           t == SubSeq(s, (k + 1) + 1, n)
           u == Tail(q)
<1>0. n \in Nat
  OBVIOUS
<1>1. k <= n => /\ q \in Seq(S) /\ Len(q) = n - k /\ \A i \in 1 .. n - k : q[i] = s[k + i]
  BY Rest
<1>2. k + 1 <= n => /\ t \in Seq(S) /\ Len(t) = n - (k + 1)
                    /\ \A i \in 1 .. n - (k + 1) : t[i] = s[(k + 1) + i]
  BY Rest
<1> HIDE DEF q, t
<1>3. ASSUME k = n PROVE q = << >>
  <2>1. Len(q) = 0 /\ q \in Seq(S)
    BY <1>0, <1>1, <1>3
  <2> QED BY <2>1, EmptySeq
<1>4. ASSUME k = 0 PROVE q = s
  <2>1. q \in Seq(S) /\ Len(q) = n - 0 /\ \A i \in 1 .. n - 0 : q[i] = s[0 + i]
    BY <1>0, <1>1, <1>4
  <2>2. Len(q) = n /\ \A i \in 1 .. n : q[i] = s[i]
    <3> HIDE DEF n
    <3> QED BY <1>0, <2>1
  <2> QED BY <2>1, <2>2, SeqEqual DEF n
<1>5. ASSUME k < n PROVE q \in Seq(S) /\ q /= << >> /\ Head(q) = s[k + 1] /\ t = u
  <2> HIDE DEF n
  <2>1. /\ k <= n /\ k + 1 <= n /\ n - k >= 1 /\ n - k - 1 = n - (k + 1) /\ 1 \in 1 .. n - k
        /\ n - k /= 0
    BY <1>0, <1>5
  <2>2. q \in Seq(S) /\ Len(q) = n - k /\ \A i \in 1 .. n - k : q[i] = s[k + i]
    BY <1>1, <2>1
  <2>3. t \in Seq(S) /\ Len(t) = n - (k + 1) /\ \A i \in 1 .. n - (k + 1) : t[i] = s[(k + 1) + i]
    BY <1>2, <2>1
  <2>4. q /= << >>
    BY <2>1, <2>2, EmptySeq
  <2>5. Head(q) = q[1] /\ u \in Seq(S) /\ Len(u) = n - k - 1
        /\ \A i \in 1 .. n - k - 1 : u[i] = q[i + 1]
    BY <2>2, <2>4, HeadTailProperties
  <2> HIDE DEF u
  <2>6. \A i \in 1 .. n - (k + 1) : i + 1 \in 1 .. n - k /\ k + (i + 1) = (k + 1) + i
    BY <1>0
  <2>7. ASSUME NEW i \in 1 .. n - (k + 1) PROVE u[i] = t[i]
    <3>1. i \in 1 .. n - k - 1 /\ i + 1 \in 1 .. n - k /\ k + (i + 1) = (k + 1) + i
      BY <2>1, <2>6
    <3>2. u[i] = q[i + 1] /\ t[i] = s[(k + 1) + i]
      BY <2>3, <2>5, <3>1
    <3>3. q[i + 1] = s[k + (i + 1)]
      BY <2>2, <3>1
    <3> QED BY <3>1, <3>2, <3>3
  <2>9. Len(u) = Len(t) /\ \A i \in 1 .. Len(t) : t[i] = u[i]
    BY <2>1, <2>3, <2>5, <2>7
  <2>8. t = u
    BY <2>3, <2>5, <2>9, SeqEqual
  <2> QED BY <2>1, <2>2, <2>4, <2>5, <2>8
<1> QED BY <1>3, <1>4, <1>5 DEF q, t, u

(***************************************************************************)
(* The end                                                                 *)
(***************************************************************************)
\* The members of S from the k-th element on, and after it.
LEMMA PickedStep ==
  ASSUME NEW S, NEW s, Len(s) \in Nat, NEW k \in Nat, k < Len(s)
  PROVE  PickedOf(S, s)[Len(s) - k] =
           IF s[k + 1] \in S THEN <<s[k + 1]>> \o PickedOf(S, s)[Len(s) - (k + 1)]
           ELSE PickedOf(S, s)[Len(s) - (k + 1)]
<1> DEFINE n == Len(s)
           m == n - k
           f == PickedOf(S, s)
<1>0. n \in Nat /\ k < n
  OBVIOUS
<1>1. \A j \in 0 .. n : f[j] = Longer(S, s, f, j)
  BY PickedDef
<1> HIDE DEF n, f
<1>2. m \in 0 .. n /\ m /= 0 /\ m - 1 = n - (k + 1) /\ n - m + 1 = k + 1
  BY <1>0
<1> HIDE DEF m
<1>3. f[m] = Longer(S, s, f, m)
  BY <1>1, <1>2
<1>4. Longer(S, s, f, m) = IF s[k + 1] \in S THEN <<s[k + 1]>> \o f[n - (k + 1)]
                           ELSE f[n - (k + 1)]
  BY <1>2 DEF Longer, n
<1> QED BY <1>3, <1>4 DEF n, m, f

LEMMA PickedLast ==
  ASSUME NEW S, NEW s, Len(s) \in Nat
  PROVE  PickedOf(S, s)[Len(s) - Len(s)] = << >>
<1>1. 0 \in 0 .. Len(s) /\ Len(s) - Len(s) = 0
  OBVIOUS
<1>2. PickedOf(S, s)[0] = Longer(S, s, PickedOf(S, s), 0)
  BY <1>1, PickedDef
<1> QED BY <1>1, <1>2 DEF Longer

LEMMA Collecting ==
  ASSUME NEW s \in Seq(Item), NEW i \in Item, NEW q \in Seq(Item)
  PROVE  Append(s, i) \o q = s \o (<<i>> \o q)
<1>1. <<i>> \in Seq(Item)
  OBVIOUS
<1>2. Append(s, i) = s \o <<i>>
  BY AppendIsConcat
<1>3. (s \o <<i>>) \o q = s \o (<<i>> \o q)
  BY <1>1, ConcatAssociative
<1> QED BY <1>2, <1>3

\* A reader that has just started, or a readObservations() that came first.
Fresh == whole /\ ((pc = "idle" /\ result = "none") \/ pc = "all")

\* The number of records that have been read.
Pos == IF type \in Indexed THEN data.idx ELSE Len(src.recs) - Len(stream.rest)

\* Each of them could be, and the reader stands right after them.
Placed ==
  /\ Pos \in 0 .. Len(Declared)
  /\ \A k \in 1 .. Pos : src.recs[k] \notin Unreadable
  /\ type \in Streams =>
       /\ stream.open /\ stream.eol = src.eol
       /\ stream.good \/ (stream.rest = << >> /\ ~src.eol)
       /\ \A k \in 1 .. Len(stream.rest) : stream.rest[k] = src.recs[Pos + k]
  /\ type \in Counted => data.n = src.count /\ data.idx = Pos
  /\ type \in Indexed => data.mem = src.recs
  /\ type = "NUKLEI" => stream.open

\* The wanted ones among them are in the collection, the others are to come.
Collected ==
  /\ pc = "idle" => Pos = 0 /\ kc = << >>
  /\ kc \o PickedOf(Wanted, Declared)[Len(Declared) - Pos] = Picked(Wanted, Declared)

Underway == ~failed /\ src /= None /\ Fresh => Placed /\ Collected

LEMMA DeclaredFacts ==
  ASSUME src /= None, FromSomeone(src)
  PROVE  /\ src.recs \in Seq(Record) /\ Len(src.recs) \in Nat /\ src.count \in Nat
         /\ src.eol \in BOOLEAN
         /\ Declared \in Seq(Record) /\ Len(Declared) \in Nat /\ Len(Declared) <= Len(src.recs)
         /\ Len(Declared) = (IF type \in Counted /\ src.count < Len(src.recs) THEN src.count
                             ELSE Len(src.recs))
         /\ \A k \in 1 .. Len(Declared) : Declared[k] = src.recs[k]
<1>1. src.recs \in Seq(Record) /\ src.count \in Nat /\ src.eol \in BOOLEAN
  BY FileType DEF FileSet
<1>2. Len(src.recs) \in Nat
  BY <1>1
<1>3. CASE type \in Counted
  <2> DEFINE q == Take(src.recs, src.count)
             n == Len(src.recs)
  <2>1. /\ q \in Seq(Record) /\ Len(q) = (IF src.count < n THEN src.count ELSE n)
        /\ \A k \in 1 .. Len(q) : q[k] = src.recs[k]
    BY <1>1, TakeProps
  <2>2. Declared = q
    BY <1>3 DEF Declared
  <2> HIDE DEF q, n
  <2>3. n \in Nat
    BY <1>2 DEF n
  <2>4. Len(q) \in Nat /\ Len(q) <= n
    BY <1>1, <2>1, <2>3
  <2> QED BY <1>1, <1>3, <2>1, <2>2, <2>3, <2>4 DEF n
<1>4. CASE type \notin Counted
  <2>1. Declared = src.recs
    BY <1>4 DEF Declared
  <2>2. Len(src.recs) <= Len(src.recs)
    BY <1>2
  <2> QED BY <1>1, <1>2, <1>4, <2>1, <2>2
<1> QED BY <1>3, <1>4

\* What is to be known of the file of the client.
LEMMA ClientFile ==
  ASSUME NEW f, FromSomeone(f), f.of /= None
  PROVE  /\ \E t \in Type, b \in Batch : FromClient(f, t, b)
         /\ f.recs \in Seq(Item) /\ f.count = Len(f.recs) /\ f.eol
         /\ f.types \intersect NotImplemented = {}
         /\ f.of \in Batch /\ \A t \in f.types : f.recs = Kept(t, f.of)
         /\ \A i, j \in RangeOf(f.recs) : i \in Item /\ KindOf[i] = KindOf[j]
<1>1. \E t \in Type, b \in Batch : FromClient(f, t, b)
  BY FileAssumption DEF FromSomeone, Emptied
<1>2. PICK t \in Type, b \in Batch : FromClient(f, t, b)
  BY <1>1
<1>3. /\ f.types = {t} /\ f.count = Len(b) /\ f.recs = Kept(t, b) /\ f.eol /\ f.of = b
      /\ t \notin NotImplemented
  BY <1>2 DEF FromClient, Written, Refused
<1>4. f.recs \in Seq(Item) /\ f.count = Len(f.recs)
  BY <1>3, KeptType
<1>5. ASSUME NEW i \in RangeOf(f.recs), NEW j \in RangeOf(f.recs)
      PROVE  i \in Item /\ KindOf[i] = KindOf[j]
  <2>1. PICK x \in RangeOf(b) : i \in Item /\ KindOf[i] = KindOf[x]
    BY <1>3, KeptKind
  <2>2. PICK y \in RangeOf(b) : KindOf[j] = KindOf[y]
    BY <1>3, KeptKind
  <2> QED BY <2>1, <2>2, OneKind
<1> QED BY <1>1, <1>3, <1>4, <1>5

\* The exceptions of EndMeansAll.
EndsShort ==
  \/ type = "CRD" /\ Bad \in RangeOf(src.recs)
  \/ type = "OFF" /\ ~src.eol /\ Len(src.recs) < src.count

\* A call of readObservation_() that comes to the end, ...
AtEnd(o) ==
  /\ o.out = "end"
  /\ \/ EndsShort
     \/ Pos = Len(Declared) /\ (type \in Counted => Len(src.recs) >= src.count)
\* ... reads the next record, ...
GoesOn(o) ==
  /\ Pos < Len(Declared)
  /\ o.out = src.recs[Pos + 1] /\ o.out \notin Unreadable
  /\ type \in Streams =>
       /\ stream.rest /= << >> /\ o.stream.rest = Tail(stream.rest)
       /\ o.stream.open /\ o.stream.eol = src.eol
       /\ o.stream.good \/ (Tail(stream.rest) = << >> /\ ~src.eol)
  /\ type \in Counted \union Indexed => o.data.idx = data.idx + 1
\* ... or breaks off, at a file that the client did not write.
Breaks(o) == o.out \in {"error", "ioerror", "undefined"} /\ src.of = None
NextRead(o) == AtEnd(o) \/ GoesOn(o) \/ Breaks(o)

\* What a reader finds where it stands.
LEMMA Standing ==
  ASSUME Inv, ~failed, src /= None, Placed
  PROVE  /\ FromSomeone(src) /\ type \in Type /\ type \in src.types
         /\ stream \in StreamSet /\ data \in DataSet
         /\ Pos \in Nat /\ Pos <= Len(Declared) /\ Pos <= Len(src.recs)
         /\ Pos < Len(src.recs) => src.recs[Pos + 1] \in Record
                                   /\ Pos + 1 \in DOMAIN src.recs
                                   /\ src.recs[Pos + 1] \in RangeOf(src.recs)
         /\ src.of /= None =>
              /\ src.count = Len(src.recs) /\ type \notin NotImplemented /\ src.eol
              /\ Pos < Len(src.recs) => src.recs[Pos + 1] \in Item
         /\ type \in Streams =>
              /\ NoLine <=> Pos = Len(src.recs)
              /\ Pos < Len(src.recs) => Line = src.recs[Pos + 1]
<1>1. /\ FromSomeone(src) /\ stream \in StreamSet /\ data \in DataSet /\ type \in src.types
  BY Parts DEF Inv, Known, TypeParts
<1>2. type \in Type
  BY <1>1, FileType DEF FileSet
<1> DEFINE k == Pos
           n == Len(src.recs)
           l == Len(Declared)
<1>3. l \in Nat /\ n \in Nat /\ l <= n /\ src.recs \in Seq(Record) /\ k \in 0 .. l
  BY <1>1, DeclaredFacts DEF Placed
<1>4. DOMAIN src.recs = 1 .. n
  BY <1>3
<1> HIDE DEF k, n, l
<1>5. k \in Nat /\ k <= l /\ k <= n /\ (k < n => k + 1 \in 1 .. n)
  BY <1>3
<1>6. k < n => src.recs[k + 1] \in Record /\ k + 1 \in DOMAIN src.recs
               /\ src.recs[k + 1] \in RangeOf(src.recs)
  BY <1>3, <1>4, <1>5 DEF RangeOf, n
<1>7. src.of /= None => /\ src.count = n /\ type \notin NotImplemented /\ src.eol
                        /\ k < n => src.recs[k + 1] \in Item
  <2>1. ASSUME src.of /= None
        PROVE  /\ src.recs \in Seq(Item) /\ src.count = n /\ src.types \intersect NotImplemented = {}
               /\ src.eol
    BY <1>1, <2>1, ClientFile DEF n
  <2>2. ASSUME src.of /= None, k < n PROVE src.recs[k + 1] \in Item
    <3>1. src.recs \in Seq(Item) /\ k + 1 \in DOMAIN src.recs
      BY <1>6, <2>1, <2>2
    <3> QED BY <3>1
  <2>3. src.of /= None => type \notin NotImplemented
    BY <1>1, <2>1
  <2> QED BY <2>1, <2>2, <2>3
<1>8. ASSUME type \in Streams
      PROVE  (NoLine <=> k = n) /\ (k < n => Line = src.recs[k + 1])
  <2> DEFINE m == Len(stream.rest)
  <2>1. stream.rest \in Seq(Record)
    BY <1>1 DEF StreamSet
  <2>2. m \in Nat /\ (m = 0 <=> stream.rest = << >>)
    BY <2>1, EmptySeq
  <2>3. k = n - m
    <3>1. type \notin Indexed
      BY <1>8, TypeSets
    <3> QED BY <3>1 DEF Pos, k, n
  <2>4. m >= 1 => Head(stream.rest) = stream.rest[1]
    BY <2>1, <2>2, HeadTailProperties
  <2>5. \A j \in 1 .. m : stream.rest[j] = src.recs[k + j]
    BY <1>8 DEF Placed, k
  <2> HIDE DEF m
  <2>6. (m = 0 <=> k = n) /\ (k < n => m >= 1) /\ (m >= 1 => 1 \in 1 .. m)
    BY <1>3, <1>5, <2>2, <2>3
  <2> QED BY <2>2, <2>4, <2>5, <2>6 DEF NoLine, Line
<1> QED BY <1>1, <1>2, <1>5, <1>6, <1>7, <1>8 DEF k, n, l

\* The stream after the line that is read.
LEMMA LineGone ==
  ASSUME stream \in StreamSet, ~NoLine, stream.open, stream.eol = src.eol, src.eol \in BOOLEAN
  PROVE  /\ AfterLine.rest = Tail(stream.rest) /\ AfterLine.open /\ AfterLine.eol = src.eol
         /\ AfterLine.good \/ (Tail(stream.rest) = << >> /\ ~src.eol)
BY StreamAfter

LEMMA LinesNext ==
  ASSUME Inv, ~failed, src /= None, Placed, type \in {"CRD", "TXT"}
  PROVE  NextRead(readObservation_)
<1> DEFINE o == readObservation_
           k == Pos
           n == Len(src.recs)
<1>0. type \in Streams /\ type \notin Indexed /\ type \notin Counted
  BY TypeSets
<1>1. o = readLines
  BY <1>0 DEF readObservation_
<1>2. /\ stream.open /\ stream.eol = src.eol /\ (stream.good \/ (stream.rest = << >> /\ ~src.eol))
  BY <1>0 DEF Placed
<1>3. Len(Declared) = n /\ n \in Nat /\ src.eol \in BOOLEAN
  BY <1>0, DeclaredFacts, Standing
<1>4. k \in Nat /\ k <= n
  BY Standing
<1>5. CASE ~stream.good \/ NoLine
  <2>1. NoLine /\ k = n
    BY <1>0, <1>2, <1>5, Standing DEF NoLine
  <2>2. o.out = "end"
    BY <1>1, <1>2, <1>5, ReadFields DEF readLines
  <2> QED BY <1>0, <1>3, <2>1, <2>2 DEF NextRead, AtEnd
<1>6. CASE ~(~stream.good \/ NoLine)
  <2>1. k < n
    <3>1. k /= n
      BY <1>0, <1>6, Standing
    <3> HIDE DEF k, n
    <3> QED BY <1>3, <1>4, <3>1
  <2>2. Line = src.recs[k + 1] /\ src.recs[k + 1] \in RangeOf(src.recs)
    BY <1>0, <2>1, Standing
  <2>3. CASE Line \notin Unreadable
    <3>1. o = Read(AfterLine, data, Line)
      BY <1>1, <1>2, <1>6, <2>3 DEF readLines
    <3>2. o.stream = AfterLine /\ o.out = Line
      BY <3>1, ReadFields
    <3>3. stream \in StreamSet
      BY Standing
    <3>4. /\ AfterLine.rest = Tail(stream.rest) /\ AfterLine.open /\ AfterLine.eol = src.eol
          /\ AfterLine.good \/ (Tail(stream.rest) = << >> /\ ~src.eol)
      BY <1>2, <1>3, <1>6, <3>3, LineGone
    <3>5. GoesOn(o)
      <4> HIDE DEF o
      <4> QED BY <1>0, <1>3, <1>6, <2>1, <2>2, <2>3, <3>2, <3>4 DEF GoesOn, NoLine
    <3> QED BY <3>5 DEF NextRead
  <2>4. CASE Line \in Unreadable /\ type = "CRD"
    <3>1. o.out = "end"
      BY <1>1, <1>2, <1>6, <2>4, ReadFields DEF readLines
    <3>2. Bad \in RangeOf(src.recs)
      <4>1. Odd \in RangeOf(src.recs) => type = "NUKLEI"
        BY Standing, OddRecords
      <4> QED BY <2>2, <2>4, <4>1 DEF Unreadable
    <3> QED BY <2>4, <3>1, <3>2 DEF NextRead, AtEnd, EndsShort
  <2>5. CASE Line \in Unreadable /\ type /= "CRD"
    <3>1. o.out = "error"
      BY <1>1, <1>2, <1>6, <2>5, ReadFields DEF readLines
    <3>2. src.of = None
      <4>1. src.of /= None => Line \in Item
        BY <2>1, <2>2, Standing
      <4> QED BY <2>5, <4>1 DEF Unreadable
    <3> QED BY <3>1, <3>2 DEF NextRead, Breaks
  <2> QED BY <2>3, <2>4, <2>5
<1> QED BY <1>5, <1>6

LEMMA OffNext ==
  ASSUME Inv, ~failed, src /= None, Placed, type = "OFF"
  PROVE  NextRead(readObservation_)
<1> DEFINE o == readObservation_
           k == Pos
           n == Len(src.recs)
           l == Len(Declared)
           c == src.count
<1>0. type \in Streams /\ type \notin Indexed /\ type \in Counted
  BY TypeSets DEF Streams, Counted
<1>1. o = readOff
  BY <1>0 DEF readObservation_
<1>2. /\ stream.open /\ stream.eol = src.eol /\ (stream.good \/ (stream.rest = << >> /\ ~src.eol))
  BY <1>0 DEF Placed
<1>3. data.n = c /\ data.idx = k
  BY <1>0 DEF Placed
<1>4. /\ k \in Nat /\ n \in Nat /\ c \in Nat /\ l \in Nat /\ k <= l /\ k <= n
      /\ l = (IF c < n THEN c ELSE n) /\ src.eol \in BOOLEAN
  BY <1>0, DeclaredFacts, Standing
<1>5. (NoLine <=> k = n) /\ (k < n => Line = src.recs[k + 1])
  BY <1>0, Standing
<1>6. src.of /= None => c = n /\ (k < n => src.recs[k + 1] \in Item)
  BY Standing
<1>10. CASE ~stream.good \/ data.idx = data.n
  <2>1. o.out = "end"
    BY <1>1, <1>2, <1>10, ReadFields DEF readOff
  <2>2. CASE data.idx = data.n
    <3>1. k = l /\ n >= c
      <4> HIDE DEF k, n, l, c
      <4> QED BY <1>3, <1>4, <2>2
    <3> QED BY <2>1, <3>1 DEF NextRead, AtEnd
  <2>3. CASE ~stream.good
    <3>1. k = n /\ ~src.eol
      BY <1>2, <1>5, <2>3 DEF NoLine
    <3>2. n < c \/ (k = l /\ n >= c)
      <4> HIDE DEF k, n, l, c
      <4>1. k = n
        BY <3>1
      <4> QED BY <1>4, <4>1
    <3> QED BY <2>1, <3>1, <3>2 DEF NextRead, AtEnd, EndsShort
  <2> QED BY <1>10, <2>2, <2>3
<1>11. CASE ~(~stream.good \/ data.idx = data.n) /\ (NoLine \/ Line \in Unreadable)
  <2>1. o.out = "ioerror"
    BY <1>1, <1>2, <1>11, ReadFields DEF readOff
  <2>2. src.of = None
    <3>1. k /= c
      BY <1>3, <1>11
    <3>2. ASSUME src.of /= None PROVE ~NoLine /\ k < n
      <4>1. k < n
        <5> HIDE DEF k, n, c
        <5> QED BY <1>4, <1>6, <3>1, <3>2
      <4>2. k /= n
        <5> HIDE DEF k, n
        <5> QED BY <1>4, <4>1
      <4> QED BY <1>5, <4>1, <4>2
    <3>3. ASSUME src.of /= None PROVE Line \in Item
      BY <1>5, <1>6, <3>2, <3>3
    <3> QED BY <1>11, <3>2, <3>3 DEF Unreadable
  <2> QED BY <2>1, <2>2 DEF NextRead, Breaks
<1>12. CASE ~(~stream.good \/ data.idx = data.n) /\ ~(NoLine \/ Line \in Unreadable)
  <2>1. o = Read(AfterLine, Counting(1), Line) /\ ~NoLine
    BY <1>1, <1>2, <1>12 DEF readOff
  <2>2. k < l /\ k < n
    <3>1. k /= n /\ k /= c
      BY <1>3, <1>5, <1>12
    <3> HIDE DEF k, n, l, c
    <3> QED BY <1>4, <3>1
  <2>3. o.stream = AfterLine /\ o.out = Line /\ o.data = Counting(1)
    BY <2>1, ReadFields
  <2>4. stream \in StreamSet /\ data \in DataSet
    BY Standing
  <2>5. /\ AfterLine.rest = Tail(stream.rest) /\ AfterLine.open /\ AfterLine.eol = src.eol
        /\ AfterLine.good \/ (Tail(stream.rest) = << >> /\ ~src.eol)
    BY <1>2, <1>4, <2>1, <2>4, LineGone
  <2>6. Counting(1).idx = data.idx + 1
    BY <2>4, CountingFacts
  <2>7. GoesOn(o)
    <3> HIDE DEF o
    <3> QED BY <1>0, <1>5, <1>12, <2>1, <2>2, <2>3, <2>5, <2>6 DEF GoesOn, NoLine
  <2> QED BY <2>7 DEF NextRead
<1> QED BY <1>10, <1>11, <1>12

LEMMA PlyNext ==
  ASSUME Inv, ~failed, src /= None, Placed, type = "PLY"
  PROVE  NextRead(readObservation_)
<1> DEFINE o == readObservation_
           k == Pos
           n == Len(src.recs)
           l == Len(Declared)
           c == src.count
<1>0. type \in Streams /\ type \notin Indexed /\ type \in Counted
  BY TypeSets DEF Streams, Counted
<1>1. o = readPly
  BY <1>0 DEF readObservation_
<1>2. stream.open /\ stream.eol = src.eol
  BY <1>0 DEF Placed
<1>3. data.n = c /\ data.idx = k
  BY <1>0 DEF Placed
<1>4. /\ k \in Nat /\ n \in Nat /\ c \in Nat /\ l \in Nat /\ k <= l /\ k <= n
      /\ l = (IF c < n THEN c ELSE n) /\ src.eol \in BOOLEAN
  BY <1>0, DeclaredFacts, Standing
<1>5. (NoLine <=> k = n) /\ (k < n => Line = src.recs[k + 1])
  BY <1>0, Standing
<1>6. src.of /= None => c = n /\ (k < n => src.recs[k + 1] \in Item)
  BY Standing
<1>10. CASE data.idx = data.n
  <2>1. o.out = "end"
    BY <1>1, <1>2, <1>10, ReadFields DEF readPly
  <2>2. k = l /\ n >= c
    <3> HIDE DEF k, n, l, c
    <3> QED BY <1>3, <1>4, <1>10
  <2> QED BY <2>1, <2>2 DEF NextRead, AtEnd
<1>11. CASE data.idx /= data.n /\ (NoLine \/ Line \in Unreadable)
  <2>1. o.out = "error"
    BY <1>1, <1>2, <1>11, ReadFields DEF readPly
  <2>2. src.of = None
    <3>1. k /= c
      BY <1>3, <1>11
    <3>2. ASSUME src.of /= None PROVE ~NoLine /\ k < n
      <4>1. k < n
        <5> HIDE DEF k, n, c
        <5> QED BY <1>4, <1>6, <3>1, <3>2
      <4>2. k /= n
        <5> HIDE DEF k, n
        <5> QED BY <1>4, <4>1
      <4> QED BY <1>5, <4>1, <4>2
    <3>3. ASSUME src.of /= None PROVE Line \in Item
      BY <1>5, <1>6, <3>2, <3>3
    <3> QED BY <1>11, <3>2, <3>3 DEF Unreadable
  <2> QED BY <2>1, <2>2 DEF NextRead, Breaks
<1>12. CASE data.idx /= data.n /\ ~(NoLine \/ Line \in Unreadable)
  <2>1. o = Read(AfterLine, Counting(1), Line) /\ ~NoLine
    BY <1>1, <1>2, <1>12 DEF readPly
  <2>2. k < l /\ k < n
    <3>1. k /= n /\ k /= c
      BY <1>3, <1>5, <1>12
    <3> HIDE DEF k, n, l, c
    <3> QED BY <1>4, <3>1
  <2>3. o.stream = AfterLine /\ o.out = Line /\ o.data = Counting(1)
    BY <2>1, ReadFields
  <2>4. stream \in StreamSet /\ data \in DataSet
    BY Standing
  <2>5. /\ AfterLine.rest = Tail(stream.rest) /\ AfterLine.open /\ AfterLine.eol = src.eol
        /\ AfterLine.good \/ (Tail(stream.rest) = << >> /\ ~src.eol)
    BY <1>2, <1>4, <2>1, <2>4, LineGone
  <2>6. Counting(1).idx = data.idx + 1
    BY <2>4, CountingFacts
  <2>7. GoesOn(o)
    <3> HIDE DEF o
    <3> QED BY <1>0, <1>5, <1>12, <2>1, <2>2, <2>3, <2>5, <2>6 DEF GoesOn, NoLine
  <2> QED BY <2>7 DEF NextRead
<1> QED BY <1>10, <1>11, <1>12

\* The client writes no VTK files.
LEMMA VtkNext ==
  ASSUME Inv, ~failed, src /= None, Placed, type = "BUILTINVTK"
  PROVE  NextRead(readObservation_)
<1> DEFINE o == readObservation_
           k == Pos
           n == Len(src.recs)
           l == Len(Declared)
           c == src.count
<1>0. type \in Streams /\ type \notin Indexed /\ type \in Counted /\ type \in NotImplemented
  BY TypeSets DEF Streams, Counted, NotImplemented
<1>1. o = readVtk
  BY <1>0 DEF readObservation_
<1>2. /\ stream.open /\ stream.eol = src.eol /\ (stream.good \/ (stream.rest = << >> /\ ~src.eol))
  BY <1>0 DEF Placed
<1>3. data.n = c /\ data.idx = k
  BY <1>0 DEF Placed
<1>4. /\ k \in Nat /\ n \in Nat /\ c \in Nat /\ l \in Nat /\ k <= l /\ k <= n
      /\ l = (IF c < n THEN c ELSE n) /\ src.eol \in BOOLEAN
  BY <1>0, DeclaredFacts, Standing
<1>5. (NoLine <=> k = n) /\ (k < n => Line = src.recs[k + 1])
  BY <1>0, Standing
<1>6. src.of = None
  BY <1>0, Standing
<1>10. CASE data.idx < 0 \/ data.idx >= data.n
  <2>1. k >= c
    <3> HIDE DEF k, c
    <3> QED BY <1>3, <1>4, <1>10
  <2>2. k = l /\ n >= c /\ ~(data.idx < 0) /\ data.idx >= data.n
    <3> HIDE DEF k, n, l, c
    <3> QED BY <1>3, <1>4, <2>1
  <2>3. o.out = "end"
    BY <1>1, <2>2, ReadFields DEF readVtk
  <2> QED BY <2>2, <2>3 DEF NextRead, AtEnd
<1>11. CASE ~(data.idx < 0 \/ data.idx >= data.n) /\ (~stream.good \/ NoLine \/ Line \in Unreadable)
  <2>1. o.out = "error"
    BY <1>1, <1>11, ReadFields DEF readVtk
  <2> QED BY <1>6, <2>1 DEF NextRead, Breaks
<1>12. CASE ~(data.idx < 0 \/ data.idx >= data.n) /\ ~(~stream.good \/ NoLine \/ Line \in Unreadable)
  <2> DEFINE s == [stream EXCEPT !.rest = Tail(@)]
  <2>1. o = Read(s, Counting(1), Line) /\ ~NoLine
    BY <1>1, <1>12 DEF readVtk
  <2>2. k < l /\ k < n
    <3>1. k /= n /\ ~(k >= c)
      BY <1>3, <1>5, <1>12
    <3> HIDE DEF k, n, l, c
    <3> QED BY <1>4, <3>1
  <2>3. o.stream = s /\ o.out = Line /\ o.data = Counting(1)
    BY <2>1, ReadFields
  <2>4. stream \in StreamSet /\ data \in DataSet
    BY Standing
  <2>5. s.rest = Tail(stream.rest) /\ s.open /\ s.eol = src.eol /\ s.good
    BY <1>2, <1>12, <2>1, <2>4, StreamAfter
  <2>6. Counting(1).idx = data.idx + 1
    BY <2>4, CountingFacts
  <2>7. GoesOn(o)
    <3> HIDE DEF o, s
    <3> QED BY <1>0, <1>5, <1>12, <2>1, <2>2, <2>3, <2>5, <2>6 DEF GoesOn, NoLine
  <2> QED BY <2>7 DEF NextRead
<1> QED BY <1>10, <1>11, <1>12

\* What was loaded from a grid, an archive or an XML document.
LEMMA IndexedNext ==
  ASSUME Inv, ~failed, src /= None, Placed, type \in Indexed
  PROVE  NextRead(readObservation_)
<1> DEFINE o == readObservation_
           k == Pos
           n == Len(src.recs)
<1>0. type \notin Streams /\ type \notin Counted
  BY TypeSets
<1>1. o = readIndexed
  <2>1. type \notin {"CRD", "TXT", "OFF", "PLY", "BUILTINVTK"}
    BY <1>0 DEF Streams
  <2> QED BY <2>1 DEF readObservation_
<1>2. data.mem = src.recs /\ data.idx = k /\ data.n = n /\ Len(data.mem) = n
  <2>1. data.mem = src.recs /\ data.idx = k
    BY DEF Placed, Pos
  <2>2. data.n = Len(data.mem)
    BY DEF Inv, Loaded
  <2> QED BY <2>1, <2>2
<1>3. k \in Nat /\ n \in Nat /\ k <= n /\ Len(Declared) = n
  BY <1>0, DeclaredFacts, Standing
<1>4. k < n => src.recs[k + 1] \in Record
  BY Standing
<1>5. src.of /= None => type \notin NotImplemented /\ (k < n => src.recs[k + 1] \in Item)
  BY Standing
<1>6. Inited \/ type \in Grids
  <2>1. data.idx >= 0
    <3> HIDE DEF k
    <3> QED BY <1>2, <1>3
  <2>2. type = "NUKLEI" => stream.open
    BY DEF Placed
  <2> QED BY <2>1, <2>2 DEF Inited, Indexed, Grids, Archives
<1>7. CASE ~Inited
  <2>1. o.out = "error"
    BY <1>1, <1>7, ReadFields DEF readIndexed
  <2>2. type \in NotImplemented
    BY <1>6, <1>7 DEF Grids, NotImplemented
  <2> QED BY <1>5, <2>1, <2>2 DEF NextRead, Breaks
<1>8. CASE Inited /\ data.idx >= data.n
  <2>1. o.out = "end"
    BY <1>1, <1>8, ReadFields DEF readIndexed
  <2>2. k = Len(Declared)
    <3> HIDE DEF k, n
    <3> QED BY <1>2, <1>3, <1>8
  <2> QED BY <1>0, <2>1, <2>2 DEF NextRead, AtEnd
<1>9. CASE Inited /\ ~(data.idx >= data.n)
  <2>1. k < n /\ ~(data.idx >= Len(data.mem))
    <3> HIDE DEF k, n
    <3> QED BY <1>2, <1>3, <1>9
  <2>2. o = Read(stream, Counting(1), Parsed(data.mem[data.idx + 1]))
    BY <1>1, <1>9, <2>1 DEF readIndexed
  <2> DEFINE r == src.recs[k + 1]
  <2>3. o.stream = stream /\ o.data = Counting(1) /\ o.out = Parsed(r) /\ r \in Record
    BY <1>2, <1>4, <2>1, <2>2, ReadFields
  <2>4. CASE r \in Unreadable
    <3>1. o.out \in {"error", "undefined"}
      BY <2>3, <2>4 DEF Parsed, Unreadable
    <3>2. src.of = None
      BY <1>5, <2>1, <2>4 DEF Unreadable
    <3> QED BY <3>1, <3>2 DEF NextRead, Breaks
  <2>5. CASE r \notin Unreadable
    <3>1. o.out = r
      BY <2>3, <2>5 DEF Parsed, Unreadable
    <3>2. data \in DataSet
      BY Standing
    <3>3. Counting(1).idx = data.idx + 1
      BY <3>2, CountingFacts
    <3>4. k < Len(Declared)
      BY <1>3, <2>1
    <3>5. GoesOn(o)
      <4> HIDE DEF o
      <4> QED BY <1>0, <2>3, <2>5, <3>1, <3>3, <3>4 DEF GoesOn
    <3> QED BY <3>5 DEF NextRead
  <2> QED BY <2>4, <2>5
<1> QED BY <1>7, <1>8, <1>9

LEMMA AnyNext ==
  ASSUME Inv, ~failed, src /= None, Placed
  PROVE  NextRead(readObservation_)
<1>1. type \in Type
  BY Standing
<1>2. \/ type \in {"CRD", "TXT"} \/ type = "OFF" \/ type = "PLY" \/ type = "BUILTINVTK"
      \/ type \in Indexed
  BY <1>1 DEF Type, Streams
<1> QED BY <1>2, LinesNext, OffNext, PlyNext, VtkNext, IndexedNext

\* The declared records do not depend on how far they have been read.
DeclaredIn(t, f) == IF t \in Counted THEN Take(f.recs, f.count) ELSE f.recs

LEMMA DeclaredInType ==
  ASSUME NEW t, NEW f, FromSomeone(f)
  PROVE  DeclaredIn(t, f) \in Seq(Record) /\ Len(DeclaredIn(t, f)) \in Nat
<1>1. f.recs \in Seq(Record) /\ f.count \in Nat
  BY FileType DEF FileSet
<1>2. Take(f.recs, f.count) \in Seq(Record)
  BY <1>1, TakeProps
<1>3. DeclaredIn(t, f) \in Seq(Record)
  BY <1>1, <1>2 DEF DeclaredIn
<1> QED BY <1>3

LEMMA WantedItems ==
  /\ Wanted \subseteq Item /\ Masked \notin Wanted
  /\ \A i \in Item : i \in Wanted <=> head = None \/ Contained(i)
BY Distinct DEF Wanted

\* Before the first record, all the wanted ones are to come.
LEMMA FromTheStart ==
  ASSUME NEW S, NEW d \in Seq(Record)
  PROVE  << >> \o PickedOf(S, d)[Len(d) - 0] = Picked(S, d)
<1>1. Len(d) \in Nat /\ Len(d) - 0 = Len(d) /\ Len(d) \in 0 .. Len(d)
  OBVIOUS
<1>2. Picked(S, d) \in Seq(S)
  BY <1>1, PickedType DEF Picked
<1>3. << >> \o Picked(S, d) = Picked(S, d)
  BY <1>2, ConcatEmptySeq
<1> QED BY <1>1, <1>3 DEF Picked

LEMMA RestShifts ==
  ASSUME NEW s \in Seq(Record), s /= << >>, NEW r, NEW n \in Nat, NEW m \in Nat, n = m - Len(s),
         \A k \in 1 .. Len(s) : s[k] = r[n + k]
  PROVE  /\ m - Len(Tail(s)) = n + 1
         /\ \A k \in 1 .. Len(Tail(s)) : Tail(s)[k] = r[n + 1 + k]
<1> DEFINE l == Len(s)
           u == Len(Tail(s))
<1>1. l \in Nat /\ l >= 1 /\ u = l - 1 /\ \A k \in 1 .. l - 1 : Tail(s)[k] = s[k + 1]
  BY EmptySeq, HeadTailProperties
<1>2. \A k \in 1 .. l : s[k] = r[n + k]
  OBVIOUS
<1>3. n = m - l
  OBVIOUS
<1> HIDE DEF l, u
<1>4. m - u = n + 1
  BY <1>1, <1>3
<1>5. ASSUME NEW k \in 1 .. u PROVE k \in 1 .. l - 1 /\ k + 1 \in 1 .. l /\ n + (k + 1) = n + 1 + k
  BY <1>1
<1> QED BY <1>1, <1>2, <1>4, <1>5 DEF u

LEMMA UnderwayInit == Init => Underway
BY DEF Init, Underway

\* A reader that has started stands before the first record.
LEMMA UnderwayStarted ==
  ASSUME Inv, NEW o, Started(o)
  PROVE  Underway'
<1> SUFFICES ASSUME file /= None PROVE Placed' /\ Collected'
  BY StartFrames DEF Underway
<1>1. /\ Outcome(o, type, stream, data) /\ o.verdict = "ok" /\ FromSomeone(file)
      /\ stream' = o.stream /\ data' = o.data /\ type' = type /\ src' = file /\ pc' = "idle"
      /\ kc' = << >> /\ type \in Type
  BY StartFrames DEF Inv, Known, Started
<1>2. file.recs \in Seq(Record) /\ Len(file.recs) \in Nat /\ file \in FileSet /\ file.eol \in BOOLEAN
  <2>1. file \in FileSet
    BY <1>1, FileType
  <2> QED BY <2>1 DEF FileSet
<1>3. type \in Streams => /\ stream'.rest = file.recs /\ stream'.open /\ stream'.eol = file.eol
                          /\ stream'.good \/ (file.recs = << >> /\ ~file.eol)
  <2>1. type \in Streams => stream' = Opened(file.recs)
    BY <1>1 DEF Outcome
  <2> QED BY ZenonT(30), <1>2, <2>1, OpenedFacts
<1>4. type \in Counted => data'.n = file.count /\ data'.idx = 0
  BY <1>1 DEF Outcome
<1>5. type \in Indexed => data'.mem = file.recs /\ data'.idx = 0
  BY <1>1 DEF Outcome
<1>6. type = "NUKLEI" => stream'.open
  BY <1>1 DEF Outcome
<1>7. Declared' = DeclaredIn(type, file)
  BY <1>1 DEF Declared, DeclaredIn
<1> DEFINE d == DeclaredIn(type, file)
<1>8. d \in Seq(Record) /\ Len(d) \in Nat
  BY <1>1, DeclaredInType
<1> HIDE DEF d
<1>9. Pos' = 0
  <2>1. CASE type \in Indexed
    BY <1>1, <1>5, <2>1 DEF Pos
  <2>2. CASE type \notin Indexed
    <3>1. type \in Streams
      BY <1>1, <2>2 DEF Type
    <3>2. Pos' = Len(file.recs) - Len(file.recs)
      BY <1>1, <1>3, <2>2, <3>1 DEF Pos
    <3> QED BY <1>2, <3>2
  <2> QED BY <2>1, <2>2
<1>10. Placed'
  <2>1. Pos' \in 0 .. Len(Declared') /\ (\A k \in 1 .. Pos' : src'.recs[k] \notin Unreadable)
    BY <1>7, <1>8, <1>9 DEF d
  <2>2. \A k \in 1 .. Len(file.recs) : k = 0 + k
    BY <1>2
  <2>3. type' \in Streams =>
          /\ stream'.open /\ stream'.eol = src'.eol
          /\ stream'.good \/ (stream'.rest = << >> /\ ~src'.eol)
          /\ \A k \in 1 .. Len(stream'.rest) : stream'.rest[k] = src'.recs[Pos' + k]
    BY <1>1, <1>3, <1>9, <2>2
  <2>4. type' \in Counted => data'.n = src'.count /\ data'.idx = Pos'
    BY <1>1, <1>4, <1>9
  <2> QED BY <1>1, <1>5, <1>6, <2>1, <2>3, <2>4 DEF Placed
<1>11. Collected'
  <2>1. kc' \o PickedOf(Wanted', Declared')[Len(Declared') - Pos'] = Picked(Wanted', Declared')
    BY <1>1, <1>7, <1>8, <1>9, FromTheStart DEF d
  <2> QED BY <1>1, <1>9, <2>1 DEF Collected
<1> QED BY <1>10, <1>11

\* A record that is read, be it collected or passed over, leads to the next.
LEMMA UnderwayGoesOn ==
  ASSUME Inv, Underway, ~failed, src /= None, whole, pc = "all",
         ReadsRecord(readObservation_), GoesOn(readObservation_), pc' = "all"
  PROVE  Placed' /\ Collected'
<1> DEFINE o == readObservation_
           k == Pos
           d == Declared
           W == Wanted
<1>1. Placed /\ Collected
  BY DEF Underway, Fresh
<1>2. /\ Reads(o) /\ stream' = o.stream /\ data' = o.data
      /\ UNCHANGED <<type, head, next, src>>
  BY DEF ReadsRecord
<1>3. /\ k \in Nat /\ k < Len(d) /\ d \in Seq(Record) /\ Len(d) \in Nat /\ Len(d) <= Len(src.recs)
      /\ d[k + 1] = src.recs[k + 1] /\ o.out = d[k + 1] /\ o.out \notin Unreadable
      /\ src.recs[k + 1] \in Record /\ Len(src.recs) \in Nat
  <2>1. k \in Nat /\ k < Len(d) /\ d \in Seq(Record) /\ Len(d) \in Nat /\ Len(d) <= Len(src.recs)
        /\ (\A j \in 1 .. Len(d) : d[j] = src.recs[j]) /\ Len(src.recs) \in Nat
        /\ (k < Len(src.recs) => src.recs[k + 1] \in Record)
    BY <1>1, Standing, DeclaredFacts DEF GoesOn
  <2> HIDE DEF k, d
  <2>2. k + 1 \in 1 .. Len(d) /\ k < Len(src.recs)
    BY <2>1
  <2> QED BY <2>1, <2>2 DEF GoesOn, k
<1>4. Declared' = d /\ Wanted' = W
  BY <1>2 DEF Declared, Wanted, Contained, Chain
<1>5. type \in Streams =>
        /\ stream'.open /\ stream'.eol = src.eol
        /\ stream'.good \/ (stream'.rest = << >> /\ ~src.eol)
        /\ Len(src.recs) - Len(stream'.rest) = k + 1
        /\ \A j \in 1 .. Len(stream'.rest) : stream'.rest[j] = src.recs[k + 1 + j]
  <2> SUFFICES ASSUME type \in Streams
               PROVE  /\ stream'.open /\ stream'.eol = src.eol
                      /\ stream'.good \/ (stream'.rest = << >> /\ ~src.eol)
                      /\ Len(src.recs) - Len(stream'.rest) = k + 1
                      /\ \A j \in 1 .. Len(stream'.rest) : stream'.rest[j] = src.recs[k + 1 + j]
    OBVIOUS
  <2>1. /\ stream.rest /= << >> /\ o.stream.rest = Tail(stream.rest)
        /\ o.stream.open /\ o.stream.eol = src.eol
        /\ o.stream.good \/ (Tail(stream.rest) = << >> /\ ~src.eol)
    BY DEF GoesOn
  <2>2. /\ stream.rest \in Seq(Record) /\ k = Len(src.recs) - Len(stream.rest)
        /\ \A j \in 1 .. Len(stream.rest) : stream.rest[j] = src.recs[k + j]
    <3>1. type \notin Indexed /\ stream \in StreamSet
      BY <1>1, Standing, TypeSets
    <3> QED BY <1>1, <3>1 DEF Pos, Placed, StreamSet
  <2> DEFINE s == stream.rest
             m == Len(src.recs)
             r == src.recs
  <2>3. s \in Seq(Record) /\ s /= << >> /\ k \in Nat /\ m \in Nat /\ k = m - Len(s)
        /\ \A j \in 1 .. Len(s) : s[j] = r[k + j]
    BY <1>3, <2>1, <2>2
  <2> HIDE DEF k, s, m, r
  <2>4. /\ m - Len(Tail(s)) = k + 1
        /\ \A j \in 1 .. Len(Tail(s)) : Tail(s)[j] = r[k + 1 + j]
    BY <2>3, RestShifts
  <2> QED BY <1>2, <2>1, <2>4 DEF s, m, r
<1>6. /\ type \in Counted \union Indexed => data'.idx = data.idx + 1
      /\ data'.n = data.n /\ data'.mem = data.mem
      /\ type \in Indexed => stream' = stream
  BY <1>2 DEF GoesOn, Reads
<1>7. Pos' = k + 1
  <2>1. CASE type \in Indexed
    BY <1>2, <1>6, <2>1 DEF Pos
  <2>2. CASE type \notin Indexed
    <3>1. type \in Streams
      BY <1>1, <2>2, Standing DEF Type
    <3> QED BY <1>2, <1>5, <2>2, <3>1 DEF Pos
  <2> QED BY <2>1, <2>2
<1>8. Placed'
  <2>0. /\ \A j \in 1 .. k : src.recs[j] \notin Unreadable
        /\ type \in Counted => data.n = src.count /\ data.idx = k
        /\ type \in Indexed => data.mem = src.recs
        /\ type = "NUKLEI" => stream.open
    BY <1>1 DEF Placed
  <2>5. "NUKLEI" \in Indexed
    BY DEF Indexed
  <2> HIDE DEF k, d, W, o
  <2>1. Pos' \in 0 .. Len(Declared')
    BY <1>3, <1>4, <1>7
  <2>2. \A j \in 1 .. Pos' : src'.recs[j] \notin Unreadable
    <3>1. \A j \in 1 .. k + 1 : j \in 1 .. k \/ j = k + 1
      BY <1>3
    <3> QED BY <1>2, <1>3, <1>7, <2>0, <3>1
  <2>3. type' \in Counted => data'.n = src'.count /\ data'.idx = Pos'
    BY <1>2, <1>6, <1>7, <2>0
  <2>4. /\ type' \in Indexed => data'.mem = src'.recs
        /\ type' = "NUKLEI" => stream'.open
    BY <1>2, <1>6, <2>0, <2>5
  <2> QED BY <1>2, <1>5, <1>7, <2>1, <2>2, <2>3, <2>4 DEF Placed
<1>9. kc' \o PickedOf(W, d)[Len(d) - (k + 1)] = Picked(W, d)
  <2> DEFINE q == PickedOf(W, d)[Len(d) - (k + 1)]
             x == d[k + 1]
  <2>1. kc \o PickedOf(W, d)[Len(d) - k] = Picked(W, d)
    BY <1>1 DEF Collected
  <2>2. PickedOf(W, d)[Len(d) - k] = IF x \in W THEN <<x>> \o q ELSE q
    <3> HIDE DEF k, d, W
    <3> QED BY <1>3, PickedStep
  <2>3. q \in Seq(Item) /\ kc \in Seq(Item)
    <3>1. kc \in Seq(Item)
      BY DEF Inv, TypeOK
    <3>2. W \subseteq Item
      BY WantedItems
    <3> HIDE DEF k, d, W
    <3>3. Len(d) - (k + 1) \in 0 .. Len(d)
      BY <1>3
    <3>4. q \in Seq(W)
      BY <1>3, <3>3, PickedType
    <3> QED BY <3>1, <3>2, <3>4
  <2>4. ASSUME x \in W PROVE kc' \o q = Picked(W, d)
    <3>1. x \in Item /\ o.out = x
      BY <1>3, <2>4, WantedItems
    <3>2. kc' = Append(kc, x)
      <4>1. /\ o.out \in Item /\ o.out /= Masked
            /\ o.out \notin {"end", "error", "ioerror", "undefined"} /\ (head = None \/ Contained(o.out))
        BY <2>4, <3>1, WantedItems DEF Results
      <4> HIDE DEF o, x
      <4> QED BY <3>1, <4>1 DEF ReadsRecord, o
    <3>3. Append(kc, x) \o q = kc \o (<<x>> \o q)
      <4> HIDE DEF q, x
      <4> QED BY <2>3, <3>1, Collecting
    <3> HIDE DEF q, x, k, d, W
    <3> QED BY <2>1, <2>2, <2>4, <3>2, <3>3
  <2>5. ASSUME x \notin W PROVE kc' \o q = Picked(W, d)
    <3>1. kc' = kc
      <4>1. o.out \notin W
        BY <1>3, <2>5
      <4>2. o.out \in Item => ~(head = None \/ Contained(o.out))
        BY <4>1, WantedItems
      <4> HIDE DEF o, W
      <4> QED BY <4>2 DEF ReadsRecord, o
    <3> HIDE DEF q, x, k, d, W
    <3> QED BY <2>1, <2>2, <2>5, <3>1
  <2> QED BY <2>4, <2>5
<1>10. Collected'
  <2> HIDE DEF k, d, W, o
  <2> QED BY <1>4, <1>7, <1>9 DEF Collected
<1> QED BY <1>8, <1>10

\* A call that ends, or breaks off, has a result.
LEMMA UnderwayReads ==
  ASSUME Inv, Underway, ReadsRecord(readObservation_)
  PROVE  Underway'
<1> DEFINE o == readObservation_
<1>1. UNCHANGED <<type, src, failed, whole>> /\ pc \in {"one", "all"}
  BY DEF ReadsRecord
<1>2. CASE ~(~failed /\ src /= None /\ whole /\ pc' \in {"idle", "all"})
  BY <1>1, <1>2 DEF Underway, Fresh
<1>3. CASE ~failed /\ src /= None /\ whole /\ pc' = "idle"
  <2>1. pc = "all"
    BY <1>1, <1>3 DEF Inv, Answering
  <2>2. result' /= "none"
    <3>1. "none" \notin Item
      BY DEF Results
    <3> QED BY <1>3, <2>1, <3>1 DEF ReadsRecord, Inv, Answering
  <2> QED BY <1>3, <2>2 DEF Underway, Fresh
<1>4. CASE ~failed /\ src /= None /\ whole /\ pc' = "all"
  <2>1. pc = "all"
    BY <1>1, <1>4 DEF Inv, Answering
  <2>2. Placed /\ NextRead(o)
    BY <1>4, <2>1, AnyNext DEF Underway, Fresh
  <2>3. o.out \in Item \/ o.out = Masked
    <3> HIDE DEF o
    <3> QED BY <1>4 DEF ReadsRecord, o
  <2>4. GoesOn(o)
    <3>1. o.out \notin {"end", "error", "ioerror", "undefined"}
      BY <2>3, Distinct DEF Results
    <3> HIDE DEF o
    <3> QED BY <2>2, <3>1 DEF NextRead, AtEnd, Breaks
  <2> QED BY <1>4, <2>1, <2>4, UnderwayGoesOn DEF Underway
<1> QED BY <1>2, <1>3, <1>4

\* Other steps move nothing, and with nothing collected the regions may change.
LEMMA UnderwayOthers ==
  ASSUME Inv, Underway, OtherSteps
  PROVE  Underway'
<1> SUFFICES ASSUME ~failed', src' /= None, Fresh'
             PROVE  Placed' /\ Collected'
  BY DEF Underway
<1>1. UNCHANGED <<type, stream, data, src, failed>>
  BY OtherFrames
<1>2. Declared' = Declared /\ Pos' = Pos /\ Placed' = Placed
  BY <1>1 DEF Declared, Pos, Placed
<1>3. ASSUME Fresh, pc = "idle", kc' = << >> PROVE Placed' /\ Collected'
  <2>1. Placed /\ Pos = 0
    BY <1>1, <1>3 DEF Underway, Collected
  <2>2. Declared = DeclaredIn(type, src) /\ FromSomeone(src)
    BY <1>1 DEF Declared, DeclaredIn, Inv, Known
  <2>3. Declared \in Seq(Record)
    BY <2>2, DeclaredInType
  <2> DEFINE d == Declared
  <2>4. Declared' = d /\ Pos' = 0 /\ d \in Seq(Record)
    BY <1>2, <2>1, <2>3
  <2> HIDE DEF d
  <2>5. << >> \o PickedOf(Wanted', d)[Len(d) - 0] = Picked(Wanted', d)
    BY <2>4, FromTheStart
  <2>6. Collected'
    BY <1>3, <2>4, <2>5 DEF Collected
  <2> QED BY <1>2, <2>1, <2>6
<1>4. ASSUME NEW r \in Region, addRegionOfInterest(r) PROVE Placed' /\ Collected'
  <2>1. pc = "idle" /\ pc' \in {"idle", "overflow"} /\ result' = result /\ kc' = kc
        /\ whole' = (whole /\ result = "none")
    BY <1>4 DEF addRegionOfInterest
  <2>2. Fresh
    BY <2>1 DEF Fresh
  <2>3. kc = << >>
    BY <1>1, <2>1, <2>2 DEF Underway, Collected
  <2> QED BY <1>3, <2>1, <2>2, <2>3
<1>5. CASE readObservation
  BY <1>5 DEF readObservation, Fresh
<1>6. CASE readObservations
  <2>1. pc = "idle" /\ kc' = << >> /\ whole' = (whole /\ result = "none")
    BY <1>6 DEF readObservations
  <2> QED BY <1>3, <2>1 DEF Fresh
<1>7. CASE Replace \/ UNCHANGED vars
  <2>1. UNCHANGED <<head, next, pc, result, kc, whole>>
    BY <1>7 DEF Replace, vars, regions, history
  <2>2. Wanted' = Wanted
    BY <2>1 DEF Wanted, Contained, Chain
  <2>3. Fresh
    BY <2>1 DEF Fresh
  <2>4. Placed /\ Collected
    BY <1>1, <2>3 DEF Underway
  <2> QED BY <1>2, <2>1, <2>2, <2>4 DEF Collected
<1>8. ASSUME NEW t \in Type, NEW b \in Batch, writeObservations(t, b) PROVE FALSE
  BY <1>8 DEF writeObservations, Fresh
<1> QED BY <1>4, <1>5, <1>6, <1>7, <1>8 DEF OtherSteps

LEMMA UnderwayNext == Inv /\ Underway /\ [Next]_vars => Underway'
<1> SUFFICES ASSUME Inv, Underway, [Next]_vars PROVE Underway'
  OBVIOUS
<1>1. ASSUME Begun \/ Looked \/ Retried \/ Gone \/ \E o : NotReset(o) PROVE Underway'
  BY <1>1, FailingFrames DEF Underway
<1> QED BY Steps, <1>1, UnderwayStarted, UnderwayReads, UnderwayOthers

\* The end of a call is the end of the file, or one of the exceptions.
LEMMA EndReads ==
  ASSUME Inv, Underway, ReadsRecord(readObservation_), whole', result' = "end", ~failed'
  PROVE  EndMeansAll'
<1> DEFINE o == readObservation_
           d == Declared
           W == Wanted
<1>1. /\ UNCHANGED <<type, src, head, next>> /\ ~failed /\ whole /\ pc = "all"
      /\ o.out = "end" /\ kc' = kc
  <2>1. UNCHANGED <<type, src, head, next, failed, whole>> /\ pc \in {"one", "all"}
    BY DEF ReadsRecord
  <2>2. pc = "all" /\ (result = "reading" \/ result \in Item)
    BY <2>1 DEF Inv, Answering
  <2>3. "end" \notin Item
    BY DEF Results
  <2>4. o.out = "end" /\ kc' = kc
    <3> HIDE DEF o
    <3> QED BY <2>2, <2>3 DEF ReadsRecord, o
  <2> QED BY <2>1, <2>2, <2>4
<1>2. src /= None
  <2>1. ASSUME src = None PROVE FALSE
    <3>1. type = "CRD" /\ stream = Closed
      BY <1>1, <2>1 DEF Inv, Known
    <3>2. o = readLines
      BY <3>1, TypeSets DEF readObservation_
    <3>3. o.out = "error"
      BY <3>1, <3>2, ClosedFacts, ReadFields DEF readLines
    <3> QED BY <1>1, <3>3
  <2> QED BY <2>1
<1>3. Placed /\ Collected /\ NextRead(o)
  BY <1>1, <1>2, AnyNext DEF Underway, Fresh
<1>4. AtEnd(o)
  <2>1. ~GoesOn(o)
    <3>1. "end" \notin Record
      BY Distinct DEF Record, Results
    <3>2. GoesOn(o) => o.out \in Record
      <4>1. GoesOn(o) => Pos < Len(Declared) /\ o.out = src.recs[Pos + 1]
        BY DEF GoesOn
      <4>2. /\ Pos \in Nat /\ Len(Declared) \in Nat /\ Len(src.recs) \in Nat
            /\ Len(Declared) <= Len(src.recs)
            /\ Pos < Len(src.recs) => src.recs[Pos + 1] \in Record
        BY <1>1, <1>2, <1>3, Standing, DeclaredFacts
      <4> DEFINE k == Pos
                 n == Len(src.recs)
                 l == Len(Declared)
      <4>3. k < l => k < n
        <5>1. k \in Nat /\ l \in Nat /\ n \in Nat /\ l <= n
          BY <4>2
        <5> HIDE DEF k, l, n
        <5> QED BY <5>1
      <4> QED BY <4>1, <4>2, <4>3
    <3> QED BY <1>1, <3>1, <3>2
  <2> QED BY <1>1, <1>3, <2>1 DEF NextRead, Breaks
<1>5. Declared' = d /\ Wanted' = W /\ EndsShort' = EndsShort
  BY <1>1 DEF Declared, Wanted, Contained, Chain, EndsShort
<1>6. CASE EndsShort
  BY <1>5, <1>6 DEF EndMeansAll, EndsShort
<1>7. CASE ~EndsShort
  <2>1. Pos = Len(d) /\ (type \in Counted => Len(src.recs) >= src.count)
    BY <1>4, <1>7 DEF AtEnd
  <2>2. /\ d \in Seq(Record) /\ Len(d) \in Nat
        /\ \A k \in 1 .. Len(d) : d[k] = src.recs[k]
    BY <1>1, <1>2, <1>3, Standing, DeclaredFacts
  <2>3. RangeOf(d) \intersect {Bad, Odd} = {}
    <3>1. \A k \in 1 .. Len(d) : src.recs[k] \notin Unreadable
      BY <1>3, <2>1 DEF Placed
    <3>2. DOMAIN d = 1 .. Len(d)
      BY <2>2
    <3> HIDE DEF d
    <3> QED BY <2>2, <3>1, <3>2 DEF RangeOf, Unreadable
  <2>4. kc = Picked(W, d)
    <3>1. kc \o PickedOf(W, d)[Len(d) - Len(d)] = Picked(W, d)
      BY <1>3, <2>1 DEF Collected
    <3>2. PickedOf(W, d)[Len(d) - Len(d)] = << >>
      <4> HIDE DEF W, d
      <4> QED BY <2>2, PickedLast
    <3>3. kc \in Seq(Item)
      BY DEF Inv, TypeOK
    <3>4. kc \o << >> = kc
      BY <3>3, ConcatEmptySeq
    <3> QED BY <3>1, <3>2, <3>4
  <2> HIDE DEF d, W
  <2> QED BY <1>1, <1>5, <2>1, <2>3, <2>4 DEF EndMeansAll
<1> QED BY <1>6, <1>7

LEMMA EndNext == Inv /\ Underway /\ EndMeansAll /\ [Next]_vars => EndMeansAll'
<1> SUFFICES ASSUME Inv, Underway, EndMeansAll, [Next]_vars, whole', result' = "end", ~failed'
             PROVE  EndMeansAll'
  BY DEF EndMeansAll
<1>1. ~(Begun \/ Looked \/ Retried \/ Gone \/ \E o : NotReset(o))
  BY FailingFrames
<1>2. ASSUME NEW o, Started(o) PROVE FALSE
  BY <1>2, StartFrames
<1>3. ASSUME OtherSteps PROVE EndMeansAll'
  <2>1. ASSUME NEW r \in Region, addRegionOfInterest(r) PROVE FALSE
    BY <2>1 DEF addRegionOfInterest
  <2>2. ~(readObservation \/ readObservations)
    BY DEF readObservation, readObservations
  <2>3. ASSUME NEW t \in Type, NEW b \in Batch, writeObservations(t, b) PROVE FALSE
    BY <2>3 DEF writeObservations
  <2>4. Replace \/ UNCHANGED vars
    BY <1>3, <2>1, <2>2, <2>3 DEF OtherSteps
  <2>5. UNCHANGED <<type, src, head, next, kc, whole, result, failed>>
    BY <2>4 DEF Replace, vars, reader, regions, history
  <2>6. Declared' = Declared /\ Wanted' = Wanted
    BY <2>5 DEF Declared, Wanted, Contained, Chain
  <2> QED BY <2>5, <2>6 DEF EndMeansAll
<1> QED BY Steps, <1>1, <1>2, <1>3, EndReads

LEMMA EndInit == Init => EndMeansAll
BY DEF Init, EndMeansAll

LEMMA UnderwayAlways == Spec => []Underway
BY Invariant, UnderwayInit, UnderwayNext, PTL DEF Spec

\* A readObservations() that comes first after a start and reports the end has
\* read as many records as the file declares, each of which could be read, and
\* collected all those that the regions of interest let through, in any format;
\* CRD at a line that is not a point, and OFF without its end, fall short.
THEOREM EndsWithTheFile == Spec => []EndMeansAll
BY Invariant, UnderwayAlways, EndInit, EndNext, PTL DEF Spec

(***************************************************************************)
(* What was written is read back                                           *)
(***************************************************************************)
\* In a sequence of observations, all are picked.
LEMMA PickedAll == ASSUME NEW s \in Seq(Item) PROVE ItemsOf(s) = s
<1> DEFINE n == Len(s)
           f == PickedOf(Item, s)
           P == {m \in Nat : m <= n => /\ Len(f[m]) = m
                                       /\ \A j \in 1 .. m : f[m][j] = s[n - m + j]}
<1>0. /\ n \in Nat /\ \A j \in 1 .. n : s[j] \in Item
      /\ \A k \in 0 .. n : f[k] = Longer(Item, s, f, k) /\ f[k] \in Seq(Item)
  <2>1. n \in Nat /\ \A j \in 1 .. n : s[j] \in Item
    OBVIOUS
  <2> QED BY <2>1, PickedDef, PickedType
<1> HIDE DEF f
<1>1. 0 \in P
  <2>1. 0 \in 0 .. n
    BY <1>0
  <2>2. f[0] = << >>
    BY <1>0, <2>1 DEF Longer
  <2>3. Len(<< >>) = 0 /\ 1 .. 0 = {}
    OBVIOUS
  <2> HIDE DEF n
  <2> QED BY <2>2, <2>3
<1>2. ASSUME NEW m \in P PROVE m + 1 \in P
  <2>1. m \in Nat /\ m + 1 \in Nat
    OBVIOUS
  <2> DEFINE p == f[m + 1]
             x == s[n - (m + 1) + 1]
             q == f[m]
  <2>2. ASSUME m + 1 <= n
        PROVE  Len(p) = m + 1 /\ \A j \in 1 .. m + 1 : p[j] = s[n - (m + 1) + j]
    <3>1. m <= n /\ m \in 0 .. n /\ m + 1 \in 0 .. n /\ m + 1 /= 0 /\ (m + 1) - 1 = m
          /\ n - (m + 1) + 1 \in 1 .. n
      <4> HIDE DEF n
      <4> QED BY <1>0, <2>1, <2>2
    <3>2. x \in Item /\ q \in Seq(Item) /\ p = Longer(Item, s, f, m + 1)
      BY <1>0, <3>1
    <3>3. p = <<x>> \o q
      BY <3>1, <3>2 DEF Longer
    <3>4. Len(q) = m /\ \A j \in 1 .. m : q[j] = s[n - m + j]
      BY <3>1
    <3>5. <<x>> \in Seq(Item) /\ Len(<<x>>) = 1 /\ <<x>>[1] = x
      BY <3>2
    <3> HIDE DEF p, x, q
    <3>6. Len(p) = 1 + Len(q) /\ \A j \in 1 .. 1 + Len(q) :
                                   p[j] = IF j <= 1 THEN <<x>>[j] ELSE q[j - 1]
      BY <3>2, <3>3, <3>5, ConcatProperties
    <3>7. ASSUME NEW j \in 1 .. m + 1 PROVE p[j] = s[n - (m + 1) + j]
      <4>1. j \in 1 .. 1 + m /\ (j <= 1 => j = 1) /\ (~(j <= 1) => j - 1 \in 1 .. m)
        BY <2>1
      <4>2. CASE j <= 1
        <5>1. p[j] = x
          BY <3>4, <3>5, <3>6, <4>1, <4>2
        <5> QED BY <4>1, <4>2, <5>1 DEF x
      <4>3. CASE ~(j <= 1)
        <5>1. p[j] = q[j - 1]
          BY <3>4, <3>6, <4>1, <4>3
        <5>2. q[j - 1] = s[n - m + (j - 1)]
          BY <3>4, <4>1, <4>3
        <5>3. n - m + (j - 1) = n - (m + 1) + j
          <6>1. n \in Nat
            BY <1>0
          <6> HIDE DEF n
          <6> QED BY <2>1, <6>1
        <5> QED BY <5>1, <5>2, <5>3
      <4> QED BY <4>2, <4>3
    <3>8. Len(p) = m + 1
      BY <2>1, <3>4, <3>6
    <3> QED BY <3>7, <3>8
  <2> HIDE DEF n
  <2> QED BY <2>1, <2>2
<1>3. P = Nat
  <2> HIDE DEF P
  <2>1. P \subseteq Nat
    BY DEF P
  <2> QED BY <1>1, <1>2, <2>1, NatBySets
<1>4. n \in P /\ n <= n
  <2> HIDE DEF n, P
  <2> QED BY <1>0, <1>3
<1>5. Len(f[n]) = n /\ \A j \in 1 .. n : f[n][j] = s[n - n + j]
  BY <1>4
<1>6. \A j \in 1 .. n : n - n + j = j
  <2> HIDE DEF n
  <2> QED BY <1>0
<1>7. f[n] \in Seq(Item)
  BY <1>0
<1>8. f[n] = s
  BY <1>5, <1>6, <1>7, SeqEqual
<1> QED BY <1>8 DEF f, ItemsOf, Picked

\* No reader but that of PLY is stopped by its own file, ...
AcceptsOwn ==
  pc \notin Starts /\ src /= None /\ src.of /= None /\ type \in src.types /\ type /= "PLY" => ~failed
\* ... and then there is no end but that of the file.
AllBack ==
  /\ pc = "idle" /\ src /= None /\ src.of /= None /\ type \in src.types /\ whole /\ ~failed
  /\ head = None /\ result /= "none"
  => result = "end"

\* init_() accepts the file that the client wrote whenever it looks at it.
LEMMA OwnFileAccepted ==
  ASSUME Inv, NEW o, NotReset(o), file /= None, file.of /= None, type \in file.types
  PROVE  type = "PLY"
<1> SUFFICES ASSUME type /= "PLY" PROVE FALSE
  OBVIOUS
<1>0. /\ FromSomeone(file) /\ Opening /\ type \in Type /\ pc = "reset"
  BY DEF Inv, Known, NotReset, Absent
<1>1. /\ file.recs \in Seq(Item) /\ file.count = Len(file.recs) /\ type \notin NotImplemented
      /\ \A i, j \in RangeOf(file.recs) : KindOf[i] = KindOf[j]
      /\ Bad \notin RangeOf(file.recs)
  <2>1. /\ file.recs \in Seq(Item) /\ file.count = Len(file.recs)
        /\ file.types \intersect NotImplemented = {}
        /\ \A i, j \in RangeOf(file.recs) : i \in Item /\ KindOf[i] = KindOf[j]
    BY <1>0, ClientFile
  <2> QED BY <2>1, Distinct
<1>2. Recognized(type)
  BY <1>1 DEF Recognized, SameTokens
<1>3. type \notin Grids /\ type /= "BUILTINVTK"
  BY <1>1 DEF NotImplemented, Grids
<1>4. CASE pass + 1 < Opens(type) /\ ~Passes
  <2>1. type = "CRD" /\ pass = 1
    BY <1>2, <1>4 DEF Passes
  <2>2. seen = file
    <3>1. pass > 0
      BY <2>1
    <3> QED BY <1>0, <3>1 DEF Opening
  <2> QED BY <1>1, <1>4, <2>1, <2>2 DEF Passes
<1>5. CASE o \in init(type, stream, data)
  <2>0. o.verdict \in {"error", "ioerror"}
    BY DEF NotReset
  <2>1. CASE type \in {"CRD", "TXT"}
    <3>1. o \in initLines(type, stream, data)
      BY <1>5, <2>1 DEF init, Counted, Grids, Archives
    <3> QED BY <2>0, <3>1 DEF initLines, Init_
  <2>2. CASE type \in Counted
    <3>1. o \in initCounted(type, stream, data)
      BY <1>5, <2>2 DEF init, Counted, Grids, Archives
    <3>2. ~stream.open
      <4>1. type \in Streams \ {"PLY"}
        BY <2>2, TypeSets
      <4>2. stream = Closed
        BY <1>0, <4>1 DEF Opening
      <4> QED BY <4>2, ClosedFacts
    <3> QED BY <1>2, <2>0, <3>1, <3>2 DEF initCounted, Init_
  <2>3. CASE type \in Archives
    <3>1. o \in initArchive(type, stream, data)
      BY <1>5, <2>3 DEF init, Counted, Grids, Archives
    <3>2. o.verdict = "ok"
      BY <1>1, <3>1 DEF initArchive, Init_
    <3> QED BY <2>0, <3>2
  <2>4. CASE type = "NUKLEI"
    <3>1. o \in initDocument(stream, data)
      BY <1>5, <2>4 DEF init, Counted, Grids, Archives
    <3>2. o.verdict = "ok"
      BY <1>2, <2>4, <3>1 DEF initDocument, Init_
    <3> QED BY <2>0, <3>2
  <2> QED BY <1>0, <1>3, <2>1, <2>2, <2>3, <2>4 DEF Type, Streams, Counted, Indexed
<1> QED BY <1>4, <1>5 DEF NotReset

LEMMA OwnInit == Init => AcceptsOwn /\ AllBack
BY DEF Init, AcceptsOwn, AllBack

LEMMA AcceptsNext == Inv /\ AcceptsOwn /\ [Next]_vars => AcceptsOwn'
<1> SUFFICES ASSUME Inv, AcceptsOwn, [Next]_vars PROVE AcceptsOwn'
  OBVIOUS
<1>1. CASE Begun
  BY <1>1 DEF Begun, AcceptsOwn, Starts
<1>2. CASE Looked
  BY <1>2 DEF Looked, AcceptsOwn
<1>3. CASE Retried
  BY <1>3 DEF Retried, AcceptsOwn, Starts
<1>4. CASE Gone
  BY <1>4 DEF Gone, Destroyed, AcceptsOwn
<1>5. ASSUME NEW o, NotReset(o) PROVE AcceptsOwn'
  <2>1. src' = file /\ type' = type
    BY <1>5 DEF NotReset
  <2> QED BY <1>5, <2>1, OwnFileAccepted DEF AcceptsOwn
<1>6. ASSUME NEW o, Started(o) PROVE AcceptsOwn'
  BY <1>6, StartFrames DEF AcceptsOwn
<1>7. ASSUME ReadsRecord(readObservation_) PROVE AcceptsOwn'
  BY <1>7 DEF ReadsRecord, AcceptsOwn, Starts
<1>8. ASSUME OtherSteps PROVE AcceptsOwn'
  <2>1. pc \in Starts => pc' = pc
    BY <1>8 DEF OtherSteps, addRegionOfInterest, readObservation, readObservations, Replace,
                writeObservations, vars, Starts
  <2> QED BY <1>8, <2>1, OtherFrames DEF AcceptsOwn
<1> QED BY Steps, <1>1, <1>2, <1>3, <1>4, <1>5, <1>6, <1>7, <1>8

\* A call that comes first does not break off in the file of the client.
LEMMA BackReads ==
  ASSUME Inv, Held, Underway, ReadsRecord(readObservation_)
  PROVE  AllBack'
<1> DEFINE o == readObservation_
<1> SUFFICES ASSUME pc' = "idle", src' /= None, src'.of /= None, whole', ~failed', head' = None
             PROVE  result' = "end"
  BY DEF AllBack
<1>1. /\ UNCHANGED <<type, src, head>> /\ ~failed /\ whole /\ pc = "all" /\ src /= None
      /\ src.of /= None /\ head = None
  <2>1. UNCHANGED <<type, src, head, failed, whole>> /\ pc \in {"one", "all"}
    BY DEF ReadsRecord
  <2> QED BY <2>1 DEF Inv, Answering
<1>2. Placed /\ NextRead(o)
  BY <1>1, AnyNext DEF Underway, Fresh
<1>3. ~Breaks(o)
  BY <1>1 DEF Breaks
<1>4. ASSUME o.out \in Item, kc /= << >>, KindOf[o.out] /= KindOf[kc[1]] PROVE FALSE
  <2>1. FromSomeone(src)
    BY <1>1 DEF Inv, Known
  <2>2. \A i, j \in RangeOf(src.recs) : KindOf[i] = KindOf[j]
    BY <1>1, <2>1, ClientFile
  <2>3. /\ RangeOf(stream.rest) \subseteq RangeOf(src.recs)
        /\ RangeOf(data.mem) \subseteq RangeOf(src.recs)
        /\ RangeOf(kc) \subseteq RangeOf(src.recs)
    BY <1>1 DEF Held, RecsOf
  <2>4. o.out \in RangeOf(stream.rest) \union RangeOf(data.mem)
    BY <1>4 DEF ReadsRecord, Reads
  <2>5. kc[1] \in RangeOf(kc)
    <3>1. kc \in Seq(Item)
      BY DEF Inv, TypeOK
    <3>2. 1 \in DOMAIN kc
      BY <1>4, <3>1, EmptySeq
    <3> QED BY <3>2 DEF RangeOf
  <2> QED BY <1>4, <2>2, <2>3, <2>4, <2>5
<1>5. result' = o.out /\ o.out \in {"end", "error", "ioerror", "undefined"}
  <2> HIDE DEF o
  <2> QED BY <1>1, <1>4 DEF ReadsRecord, o
<1>6. o.out \in {"error", "ioerror", "undefined"} => FALSE
  <2>1. ~AtEnd(o) /\ ~GoesOn(o) => FALSE
    BY <1>2, <1>3 DEF NextRead
  <2>2. o.out /= "end" => ~AtEnd(o)
    BY DEF AtEnd
  <2>3. GoesOn(o) => o.out \in Record
    <3>1. GoesOn(o) => Pos < Len(Declared) /\ o.out = src.recs[Pos + 1]
      BY DEF GoesOn
    <3>2. /\ Pos \in Nat /\ Len(Declared) \in Nat /\ Len(src.recs) \in Nat
          /\ Len(Declared) <= Len(src.recs)
          /\ Pos < Len(src.recs) => src.recs[Pos + 1] \in Record
      BY <1>1, <1>2, Standing, DeclaredFacts
    <3> DEFINE k == Pos
               n == Len(src.recs)
               l == Len(Declared)
    <3>3. k < l => k < n
      <4>1. k \in Nat /\ l \in Nat /\ n \in Nat /\ l <= n
        BY <3>2
      <4> HIDE DEF k, l, n
      <4> QED BY <4>1
    <3> QED BY <3>1, <3>2, <3>3
  <2>4. {"error", "ioerror", "undefined"} \intersect Record = {}
    BY DEF Record, Results
  <2> HIDE DEF o
  <2> QED BY <2>1, <2>2, <2>3, <2>4
<1> HIDE DEF o
<1> QED BY <1>5, <1>6

LEMMA BackNext == Inv /\ Held /\ Underway /\ AllBack /\ [Next]_vars => AllBack'
<1> SUFFICES ASSUME Inv, Held, Underway, AllBack, [Next]_vars PROVE AllBack'
  OBVIOUS
<1>1. ASSUME Begun \/ Looked \/ Retried \/ Gone \/ \E o : NotReset(o) PROVE AllBack'
  BY <1>1, FailingFrames DEF AllBack
<1>2. ASSUME NEW o, Started(o) PROVE AllBack'
  BY <1>2, StartFrames DEF AllBack
<1>3. ASSUME OtherSteps PROVE AllBack'
  <2>1. ASSUME NEW r \in Region, addRegionOfInterest(r) PROVE AllBack'
    <3>1. head' /= None
      BY <2>1 DEF addRegionOfInterest
    <3> QED BY <3>1 DEF AllBack
  <2>2. readObservation \/ readObservations => pc' /= "idle"
    BY DEF readObservation, readObservations
  <2>3. ASSUME NEW t \in Type, NEW b \in Batch, writeObservations(t, b) PROVE pc' /= "idle"
    BY <2>3 DEF writeObservations
  <2>4. Replace \/ UNCHANGED vars => AllBack'
    <3>1. Replace \/ UNCHANGED vars => UNCHANGED <<type, src, head, pc, whole, result, failed>>
      BY DEF Replace, vars, reader, regions, history
    <3> QED BY <3>1 DEF AllBack
  <2> QED BY <1>3, <2>1, <2>2, <2>3, <2>4 DEF OtherSteps, AllBack
<1> QED BY Steps, <1>1, <1>2, <1>3, BackReads

\* The whole file of the client is what it gave.
LEMMA OwnRecords ==
  ASSUME Inv, EndMeansAll, src /= None, src.of /= None, type \in src.types, whole, ~failed,
         head = None, result = "end"
  PROVE  AsGiven(kc, src.of)
<1> DEFINE b == src.of
           s == Kept(type, b)
<1>1. /\ src.recs \in Seq(Item) /\ src.count = Len(src.recs) /\ src.eol
      /\ b \in Batch /\ src.recs = s
  <2>1. FromSomeone(src)
    BY DEF Inv, Known
  <2> QED BY <2>1, ClientFile
<1>2. kc = Picked(Wanted, Declared)
  <2>1. Bad \notin RangeOf(src.recs)
    BY <1>1, Distinct DEF RangeOf
  <2> QED BY <1>1, <2>1 DEF EndMeansAll
<1>3. Declared = src.recs
  <2>1. Take(src.recs, src.count) = src.recs
    <3> DEFINE r == src.recs
               n == src.count
               q == Take(r, n)
    <3>1. r \in Seq(Item) /\ n = Len(r)
      BY <1>1
    <3> HIDE DEF r, n
    <3>2. n \in Nat /\ ~(n < Len(r))
      BY <3>1
    <3>3. q \in Seq(Item) /\ Len(q) = Len(r) /\ \A k \in 1 .. Len(q) : q[k] = r[k]
      BY <3>1, <3>2, TakeProps
    <3> HIDE DEF q
    <3>4. q = r
      BY <3>1, <3>3, SeqEqual
    <3> QED BY <3>4 DEF q, r, n
  <2> QED BY <2>1 DEF Declared
<1>4. kc = s
  <2>1. Wanted = Item
    BY DEF Wanted
  <2> QED BY <1>1, <1>2, <1>3, <2>1, PickedAll DEF ItemsOf
<1> HIDE DEF b
<1>5. /\ Len(s) = Len(b) /\ DOMAIN s = DOMAIN b /\ b \in Seq(Item)
      /\ \A k \in DOMAIN b : s[k] = IF type \in Complete THEN b[k] ELSE Bare[b[k]]
  BY <1>1, KeptType
<1> HIDE DEF s
<1>6. ASSUME NEW k \in DOMAIN b
      PROVE  Bare[s[k]] = Bare[b[k]] /\ (type \in Complete => s[k] = b[k])
  <2>1. b[k] \in Item
    BY <1>5
  <2> QED BY <1>5, <2>1, BareAssumption
<1> QED BY <1>4, <1>5, <1>6 DEF AsGiven, b

\* What writeObservations() wrote, the reader of its format accepts, after any
\* number of readers and resets (that of PLY apart, which cannot be reset), and
\* readObservations() gives back the same kernels in the same order, with their
\* weights and bandwidths where the format keeps them.
THEOREM ReadsBackTheWritten == Spec => []WrittenIsReadBack
<1>1. Spec => [](AcceptsOwn /\ AllBack)
  BY Invariant, HeldAlways, UnderwayAlways, OwnInit, AcceptsNext, BackNext, PTL DEF Spec
<1>2. Inv /\ EndMeansAll /\ AcceptsOwn /\ AllBack => WrittenIsReadBack
  <2> SUFFICES ASSUME Inv, EndMeansAll, AcceptsOwn, AllBack,
                      pc = "idle", src /= None, src.of /= None, type \in src.types
               PROVE  /\ type /= "PLY" => ~failed
                      /\ whole /\ ~failed /\ head = None /\ result /= "none" =>
                           result = "end" /\ AsGiven(kc, src.of)
    BY DEF WrittenIsReadBack
  <2>1. type /= "PLY" => ~failed
    BY DEF AcceptsOwn, Starts
  <2>2. ASSUME whole, ~failed, head = None, result /= "none"
        PROVE  result = "end" /\ AsGiven(kc, src.of)
    <3>1. result = "end"
      BY <2>2 DEF AllBack
    <3> QED BY <2>2, <3>1, OwnRecords
  <2> QED BY <2>1, <2>2
<1> QED BY <1>1, <1>2, Invariant, EndsWithTheFile, PTL

(***************************************************************************)
(* One call of readObservation_() and what is left to deliver              *)
(***************************************************************************)
\* What a call leaves (u) of what there was to deliver (t).
Gives(out, t, u) ==
  /\ out \in Item => t /= << >> /\ Head(t) = out /\ u = Tail(t)
  /\ out = Masked => u = t
  /\ out = "end" => t = << >> /\ u = << >>
  /\ out \in {"error", "ioerror"} => u \in {t, << >>}
  /\ out /= "undefined"

\* A stream that has met the end of its file has no line left.
Sound(s) == type \in {"CRD", "TXT", "OFF"} => s.good \/ s.rest = << >>

LEMMA LeftIs ==
  ASSUME NEW s, NEW d
  PROVE  /\ type \in {"CRD", "TXT"} => Left(s, d) = ItemsOf(s.rest)
         /\ type = "OFF" => Left(s, d) = Take(ItemsOf(s.rest), d.n - d.idx)
         /\ type = "PLY" => Left(s, d) = ItemsOf(Take(s.rest, d.n - d.idx))
         /\ type = "BUILTINVTK" =>
              Left(s, d) = IF s.good THEN ItemsOf(Take(s.rest, d.n - d.idx)) ELSE << >>
         /\ type \in Indexed => Left(s, d) = ItemsOf(SubSeq(d.mem, d.idx + 1, Len(d.mem)))
<1>1. type \in Indexed => type \notin {"CRD", "TXT", "OFF", "PLY", "BUILTINVTK"}
  BY TypeSets DEF Streams
<1> QED BY <1>1 DEF Left

\* Records that are no observations.
LEMMA Others == /\ {Bad, Odd, Masked} \intersect Item = {} /\ Masked \notin {Bad, Odd}
                /\ {Bad, Odd, Masked} \intersect Results = {} /\ Item \intersect Results = {}
BY Distinct

\* What an answer that is no observation may be.
LEMMA NothingGiven ==
  ASSUME NEW t
  PROVE  /\ \A out \in {"error", "ioerror"} : Gives(out, t, t) /\ Gives(out, t, << >>)
         /\ t = << >> => Gives("end", t, t)
         /\ Gives(Masked, t, t)
BY Others DEF Gives, Results

LEMMA LinesGive ==
  ASSUME stream \in StreamSet, data \in DataSet, type \in {"CRD", "TXT"}, Sound(stream),
         Masked \notin RangeOf(stream.rest),
         type = "CRD" => Unreadable \intersect RangeOf(stream.rest) = {},
         NEW o, o = readLines
  PROVE  Gives(o.out, Left(stream, data), Left(o.stream, o.data)) /\ Sound(o.stream)
<1> DEFINE r == stream.rest
           t == ItemsOf(r)
<1>1. /\ r \in Seq(Record) /\ (stream.good \/ r = << >>)
      /\ Left(stream, data) = t /\ Left(o.stream, o.data) = ItemsOf(o.stream.rest)
  BY LeftIs DEF StreamSet, Sound
<1>2. CASE ~stream.open
  <2>1. o = Read(stream, data, "error")
    BY <1>2 DEF readLines
  <2> QED BY <2>1, ReadFields, NothingGiven
<1>3. CASE stream.open /\ (~stream.good \/ NoLine)
  <2>1. r = << >>
    BY <1>1, <1>3 DEF NoLine
  <2>2. o = Read(AtEof, data, "end")
    BY <1>3 DEF readLines
  <2>3. o.stream = AtEof /\ o.data = data /\ o.out = "end" /\ o.stream.rest = r
    BY <2>2, ReadFields, StreamAfter
  <2>4. t = << >>
    BY <2>1, ItemsNone
  <2> QED BY <1>1, <2>1, <2>3, <2>4, NothingGiven DEF Sound
<1>4. CASE stream.open /\ ~(~stream.good \/ NoLine)
  <2>1. /\ Line \in RangeOf(r) /\ Line \in Record /\ Line = Head(r) /\ r /= << >>
        /\ AfterLine.rest = Tail(r)
        /\ AfterLine.good = (stream.eol \/ Tail(r) /= << >>)
    BY <1>4, LineRead, StreamAfter DEF Line, NoLine
  <2>2. /\ Line \in Item => t /= << >> /\ Head(t) = Line /\ ItemsOf(Tail(r)) = Tail(t)
        /\ Line \notin Item => ItemsOf(Tail(r)) = t
    BY <1>1, <2>1, ItemsStep
  <2>3. Line \in Item \union Unreadable
    BY <2>1 DEF Record, Unreadable
  <2>4. CASE Line \in Item
    <3>1. o = Read(AfterLine, data, Line)
      BY <1>4, <2>4, Others DEF readLines, Unreadable
    <3>2. o.stream = AfterLine /\ o.out = Line
      BY <3>1, ReadFields
    <3>3. Gives(Line, t, Tail(t))
      BY <2>2, <2>4, Others DEF Gives, Results
    <3> QED BY <1>1, <2>1, <2>2, <2>4, <3>2, <3>3 DEF Sound
  <2>5. CASE Line \in Unreadable
    <3>1. type /= "CRD"
      BY <2>1, <2>5
    <3>2. o = Read(AfterLine, data, "error")
      BY <1>4, <2>5, <3>1 DEF readLines
    <3>3. o.stream = AfterLine /\ o.out = "error"
      BY <3>2, ReadFields
    <3>4. Left(o.stream, o.data) = t
      BY <1>1, <2>1, <2>2, <2>5, <3>3, Others DEF Unreadable
    <3>5. Sound(o.stream)
      BY <2>1, <3>3 DEF Sound
    <3> QED BY <1>1, <3>3, <3>4, <3>5, NothingGiven
  <2> QED BY <2>3, <2>4, <2>5
<1> QED BY <1>2, <1>3, <1>4

\* How many records a reader that counts expects.
LEMMA Expected ==
  ASSUME data \in DataSet, data.idx \in -1 .. data.n
  PROVE  /\ data.n - data.idx \in Nat
         /\ data.idx = data.n <=> data.n - data.idx = 0
         /\ data.idx /= data.n =>
              data.n - data.idx >= 1 /\ data.n - (data.idx + 1) = (data.n - data.idx) - 1
<1>1. data.n \in Nat /\ data.idx \in Int
  BY DEF DataSet
<1> QED BY <1>1

LEMMA OffGives ==
  ASSUME stream \in StreamSet, data \in DataSet, data.idx \in -1 .. data.n, type = "OFF",
         Sound(stream), Masked \notin RangeOf(stream.rest), NEW o, o = readOff
  PROVE  Gives(o.out, Left(stream, data), Left(o.stream, o.data)) /\ Sound(o.stream)
<1> DEFINE r == stream.rest
           t == ItemsOf(r)
           m == data.n - data.idx
<1>1. /\ r \in Seq(Record) /\ (stream.good \/ r = << >>)
      /\ Left(stream, data) = Take(t, m)
      /\ Left(o.stream, o.data) = Take(ItemsOf(o.stream.rest), o.data.n - o.data.idx)
  BY LeftIs DEF StreamSet, Sound
<1>2. t \in Seq(Item) /\ m \in Nat
  BY <1>1, ItemsType, Expected
<1>3. CASE ~stream.open
  <2>1. o = Read(stream, data, "error")
    BY <1>3 DEF readOff
  <2> QED BY <2>1, ReadFields, NothingGiven
<1>4. CASE stream.open /\ (~stream.good \/ data.idx = data.n)
  <2>1. m = 0 \/ t = << >>
    BY <1>1, <1>4, Expected, ItemsNone
  <2>2. Take(t, m) = << >>
    BY <1>2, <2>1, TakeNone
  <2>3. o = Read(stream, data, "end")
    BY <1>4 DEF readOff
  <2> QED BY <1>1, <2>2, <2>3, ReadFields, NothingGiven
<1>5. CASE stream.open /\ ~(~stream.good \/ data.idx = data.n)
  <2>1. CASE NoLine
    <3>1. o = Read(AtEof, data, "ioerror")
      BY <1>5, <2>1 DEF readOff
    <3>2. o.stream = AtEof /\ o.data = data /\ o.out = "ioerror" /\ o.stream.rest = r /\ r = << >>
      BY <2>1, <3>1, ReadFields, StreamAfter DEF NoLine
    <3> QED BY <1>1, <3>2, NothingGiven DEF Sound
  <2>2. CASE ~NoLine
    <3>1. /\ Line \in RangeOf(r) /\ Line \in Record /\ Line = Head(r) /\ r /= << >>
          /\ AfterLine.rest = Tail(r)
          /\ AfterLine.good = (stream.eol \/ Tail(r) /= << >>)
      BY <2>2, LineRead, StreamAfter DEF Line, NoLine
    <3>2. /\ Line \in Item => t /= << >> /\ Head(t) = Line /\ ItemsOf(Tail(r)) = Tail(t)
          /\ Line \notin Item => ItemsOf(Tail(r)) = t
      BY <1>1, <3>1, ItemsStep
    <3>3. Line \in Item \union Unreadable
      BY <3>1 DEF Record, Unreadable
    <3>4. CASE Line \in Item
      <4>1. o = Read(AfterLine, Counting(1), Line)
        BY <1>5, <2>2, <3>4, Others DEF readOff, Unreadable
      <4>2. o.stream = AfterLine /\ o.data = Counting(1) /\ o.out = Line
        BY <4>1, ReadFields
      <4>3. o.data.n - o.data.idx = m - 1 /\ m >= 1
        BY <1>5, <4>2, CountingFacts, Expected
      <4> HIDE DEF m, t
      <4>4. /\ Take(t, m) /= << >> /\ Head(Take(t, m)) = Head(t)
            /\ Take(Tail(t), m - 1) = Tail(Take(t, m))
        BY <1>2, <3>2, <3>4, <4>3, TakeStep
      <4>5. Left(o.stream, o.data) = Tail(Take(t, m))
        BY <1>1, <3>1, <3>2, <3>4, <4>2, <4>3, <4>4
      <4>6. Gives(Line, Take(t, m), Tail(Take(t, m)))
        BY <3>2, <3>4, <4>4, Others DEF Gives, Results
      <4> QED BY <1>1, <3>1, <4>2, <4>5, <4>6 DEF Sound
    <3>5. CASE Line \in Unreadable
      <4>1. o = Read(AfterLine, data, "ioerror")
        BY <1>5, <2>2, <3>5 DEF readOff
      <4>2. o.stream = AfterLine /\ o.data = data /\ o.out = "ioerror"
        BY <4>1, ReadFields
      <4>3. Left(o.stream, o.data) = Take(t, m)
        BY <1>1, <3>1, <3>2, <3>5, <4>2, Others DEF Unreadable
      <4>4. Sound(o.stream)
        BY <3>1, <4>2 DEF Sound
      <4> QED BY <1>1, <4>2, <4>3, <4>4, NothingGiven
    <3> QED BY <3>3, <3>4, <3>5
  <2> QED BY <2>1, <2>2
<1> QED BY <1>3, <1>4, <1>5

\* What the next record does to the records that are expected.
LEMMA CountedLine ==
  ASSUME stream \in StreamSet, ~NoLine, NEW m \in Nat, m >= 1
  PROVE  LET t == ItemsOf(Take(stream.rest, m))
             u == ItemsOf(Take(Tail(stream.rest), m - 1))
         IN  /\ Line \in Item => t /= << >> /\ Head(t) = Line /\ u = Tail(t)
             /\ Line \notin Item => u = t
<1> DEFINE r == stream.rest
           q == Take(r, m)
<1>1. r \in Seq(Record) /\ r /= << >> /\ Line = Head(r)
  BY DEF StreamSet, NoLine, Line
<1> HIDE DEF r
<1>2. q /= << >> /\ Head(q) = Line /\ Take(Tail(r), m - 1) = Tail(q) /\ q \in Seq(Record)
  BY <1>1, TakeStep, TakeProps
<1> HIDE DEF q
<1>3. /\ Line \in Item => ItemsOf(q) /= << >> /\ Head(ItemsOf(q)) = Line
                          /\ ItemsOf(Tail(q)) = Tail(ItemsOf(q))
      /\ Line \notin Item => ItemsOf(Tail(q)) = ItemsOf(q)
  BY <1>2, ItemsStep
<1> QED BY <1>2, <1>3 DEF r, q

LEMMA PlyGives ==
  ASSUME stream \in StreamSet, data \in DataSet, data.idx \in -1 .. data.n, type = "PLY",
         Masked \notin RangeOf(stream.rest), NEW o, o = readPly
  PROVE  Gives(o.out, Left(stream, data), Left(o.stream, o.data)) /\ Sound(o.stream)
<1> DEFINE r == stream.rest
           m == data.n - data.idx
           t == ItemsOf(Take(r, m))
<1>1. /\ r \in Seq(Record) /\ m \in Nat /\ Sound(o.stream)
      /\ Left(stream, data) = t
      /\ Left(o.stream, o.data) = ItemsOf(Take(o.stream.rest, o.data.n - o.data.idx))
  BY LeftIs, Expected DEF StreamSet, Sound
<1>2. CASE ~stream.open
  <2>1. o = Read(stream, data, "error")
    BY <1>2 DEF readPly
  <2> QED BY <1>1, <2>1, ReadFields, NothingGiven
<1>3. CASE stream.open /\ data.idx = data.n
  <2>1. Take(r, m) = << >>
    BY <1>1, <1>3, Expected, TakeNone
  <2>2. t = << >>
    BY <2>1, ItemsNone
  <2>3. o = Read(stream, data, "end")
    BY <1>3 DEF readPly
  <2> QED BY <1>1, <2>2, <2>3, ReadFields, NothingGiven
<1>4. CASE stream.open /\ data.idx /= data.n
  <2>0. m >= 1 /\ Counting(1).n - Counting(1).idx = m - 1 /\ m - 1 \in Nat
    <3>1. m >= 1 /\ Counting(1).n - Counting(1).idx = m - 1
      BY <1>4, CountingFacts, Expected
    <3> HIDE DEF m
    <3> QED BY <1>1, <3>1
  <2>1. CASE NoLine
    <3>1. o = Read(AtEof, Counting(1), "error")
      BY <1>4, <2>1 DEF readPly
    <3>2. o.stream.rest = << >> /\ o.data = Counting(1) /\ o.out = "error"
      BY <2>1, <3>1, ReadFields, StreamAfter DEF NoLine
    <3>3. << >> \in Seq(Record)
      OBVIOUS
    <3> HIDE DEF m
    <3>4. Take(<< >>, m - 1) = << >>
      BY <2>0, <3>3, TakeNone
    <3>5. Left(o.stream, o.data) = << >>
      BY <1>1, <2>0, <3>2, <3>4, ItemsNone
    <3> QED BY <1>1, <3>2, <3>5, NothingGiven
  <2>2. CASE ~NoLine
    <3>1. Line \in RangeOf(r) /\ Line \in Record /\ AfterLine.rest = Tail(r)
      BY <2>2, LineRead, StreamAfter
    <3>2. Line \in Item \union Unreadable
      BY <3>1 DEF Record, Unreadable
    <3> DEFINE u == ItemsOf(Take(Tail(r), m - 1))
    <3> HIDE DEF m
    <3>3. /\ Line \in Item => t /= << >> /\ Head(t) = Line /\ u = Tail(t)
          /\ Line \notin Item => u = t
      BY <1>1, <2>0, <2>2, CountedLine
    <3>4. PICK out : out = (IF Line \in Unreadable THEN "error" ELSE Line)
                     /\ o = Read(AfterLine, Counting(1), out)
      BY <1>4, <2>2 DEF readPly
    <3>5. o.stream = AfterLine /\ o.data = Counting(1) /\ o.out = out
      BY <3>4, ReadFields
    <3>6. Left(o.stream, o.data) = u
      BY <1>1, <2>0, <3>1, <3>5
    <3>7. Gives(out, t, u)
      <4> HIDE DEF t, u
      <4>1. CASE Line \in Item
        BY <3>3, <3>4, <4>1, Others DEF Gives, Results, Unreadable
      <4>2. CASE Line \in Unreadable
        BY <3>3, <3>4, <4>2, NothingGiven, Others DEF Unreadable
      <4> QED BY <3>2, <4>1, <4>2
    <3> QED BY <1>1, <3>5, <3>6, <3>7
  <2> QED BY <2>1, <2>2
<1> QED BY <1>2, <1>3, <1>4

\* Once a number has failed to parse, the reader of VTK gives nothing any more.
LEMMA VtkGives ==
  ASSUME stream \in StreamSet, data \in DataSet, data.idx \in -1 .. data.n, type = "BUILTINVTK",
         Masked \notin RangeOf(stream.rest), NEW o, o = readVtk
  PROVE  Gives(o.out, Left(stream, data), Left(o.stream, o.data)) /\ Sound(o.stream)
<1> DEFINE r == stream.rest
           m == data.n - data.idx
           t == ItemsOf(Take(r, m))
<1>1. /\ r \in Seq(Record) /\ m \in Nat /\ Sound(o.stream)
      /\ Left(stream, data) = IF stream.good THEN t ELSE << >>
      /\ Left(o.stream, o.data) = IF o.stream.good
                                  THEN ItemsOf(Take(o.stream.rest, o.data.n - o.data.idx))
                                  ELSE << >>
  BY LeftIs, Expected DEF StreamSet, Sound
<1>2. CASE data.idx < 0
  <2>1. o = Read(stream, data, "error")
    BY <1>2 DEF readVtk
  <2> QED BY <1>1, <2>1, ReadFields, NothingGiven
<1>3. CASE ~(data.idx < 0) /\ data.idx >= data.n
  <2>0. data.idx = data.n
    <3>1. data.n \in Nat
      BY DEF DataSet
    <3> QED BY <1>3, <3>1
  <2>1. Take(r, m) = << >>
    BY <1>1, <2>0, Expected, TakeNone
  <2>2. t = << >>
    BY <2>1, ItemsNone
  <2>3. o = Read(stream, data, "end")
    BY <1>3 DEF readVtk
  <2>4. Left(stream, data) = << >>
    BY <1>1, <2>2
  <2> QED BY <1>1, <2>3, <2>4, ReadFields, NothingGiven
<1>4. CASE ~(data.idx < 0) /\ ~(data.idx >= data.n)
  <2>0. m >= 1 /\ Counting(1).n - Counting(1).idx = m - 1 /\ m - 1 \in Nat
    <3>0. data.idx /= data.n
      <4>1. data.n \in Nat
        BY DEF DataSet
      <4> QED BY <1>4, <4>1
    <3>1. m >= 1 /\ Counting(1).n - Counting(1).idx = m - 1
      BY <3>0, CountingFacts, Expected
    <3> HIDE DEF m
    <3> QED BY <1>1, <3>1
  <2>1. CASE ~stream.good \/ NoLine \/ Line \in Unreadable
    <3>1. o = Read(AtEof, Counting(1), "error")
      BY <1>4, <2>1 DEF readVtk
    <3>2. o.stream = AtEof /\ o.out = "error"
      BY <3>1, ReadFields
    <3>3. ~AtEof.good
      BY DEF AtEof, StreamSet
    <3>4. Left(o.stream, o.data) = << >>
      BY <1>1, <3>2, <3>3
    <3> QED BY <1>1, <3>2, <3>4, NothingGiven
  <2>2. CASE ~(~stream.good \/ NoLine \/ Line \in Unreadable)
    <3> DEFINE q == [stream EXCEPT !.rest = Tail(@)]
               u == ItemsOf(Take(Tail(r), m - 1))
    <3>1. Line \in RangeOf(r) /\ Line \in Record /\ q.rest = Tail(r) /\ q.good = stream.good
      BY <2>2, LineRead, StreamAfter
    <3>2. Line \in Item
      BY <2>2, <3>1 DEF Record, Unreadable
    <3>3. o = Read(q, Counting(1), Line)
      BY <1>4, <2>2 DEF readVtk
    <3> HIDE DEF m, q
    <3>4. t /= << >> /\ Head(t) = Line /\ u = Tail(t)
      BY <1>1, <2>0, <2>2, <3>2, CountedLine
    <3>5. o.stream = q /\ o.data = Counting(1) /\ o.out = Line
      BY <3>3, ReadFields
    <3>6. Left(o.stream, o.data) = u /\ Left(stream, data) = t
      BY <1>1, <2>0, <2>2, <3>1, <3>5
    <3> HIDE DEF t, u
    <3>7. Gives(Line, t, u)
      BY <3>2, <3>4, Others DEF Gives, Results
    <3> QED BY <1>1, <3>5, <3>6, <3>7
  <2> QED BY <2>1, <2>2
<1> QED BY <1>2, <1>3, <1>4

LEMMA IndexedGives ==
  ASSUME stream \in StreamSet, data \in DataSet, data.idx \in 0 .. data.n, type \in Indexed,
         data.n = Len(data.mem), Odd \notin RangeOf(data.mem), NEW o, o = readIndexed
  PROVE  Gives(o.out, Left(stream, data), Left(o.stream, o.data)) /\ Sound(o.stream)
<1> DEFINE s == data.mem
           n == data.n
           k == data.idx
           t == SubSeq(s, k + 1, Len(s))
<1>1. /\ s \in Seq(Record) /\ n = Len(s) /\ n \in Nat /\ k \in Nat /\ k <= n
      /\ Left(stream, data) = ItemsOf(t)
      /\ Left(o.stream, o.data) = ItemsOf(SubSeq(o.data.mem, o.data.idx + 1, Len(o.data.mem)))
  BY LeftIs DEF DataSet
<1>2. Sound(o.stream)
  BY TypeSets DEF Sound, Streams
<1>3. CASE ~Inited
  <2>1. o = Read(stream, data, "error")
    BY <1>3 DEF readIndexed
  <2> QED BY <1>1, <1>2, <2>1, ReadFields, NothingGiven
<1>4. CASE Inited /\ data.idx >= data.n
  <2>0. k = Len(s)
    <3> HIDE DEF s
    <3> QED BY <1>1, <1>4
  <2>1. t = << >>
    BY <1>1, <2>0, RestStep
  <2>2. Left(stream, data) = << >>
    BY <1>1, <2>1, ItemsNone
  <2>3. o = Read(stream, data, "end")
    BY <1>4 DEF readIndexed
  <2> QED BY <1>2, <2>2, <2>3, ReadFields, NothingGiven
<1>5. CASE Inited /\ ~(data.idx >= data.n)
  <2>1. k < Len(s) /\ ~(data.idx >= Len(data.mem)) /\ k + 1 \in 1 .. Len(s)
    <3> DEFINE l == Len(s)
    <3>1. n = l /\ n \in Nat /\ k \in Nat /\ ~(k >= n)
      BY <1>1, <1>5
    <3> HIDE DEF l
    <3>2. k < l /\ ~(k >= l) /\ k + 1 \in 1 .. l
      BY <3>1
    <3> QED BY <3>2 DEF l
  <2> DEFINE r == s[k + 1]
             u == SubSeq(s, (k + 1) + 1, Len(s))
  <2>2. t \in Seq(Record) /\ t /= << >> /\ Head(t) = r /\ u = Tail(t)
    BY <1>1, <2>1, RestStep
  <2>3. r \in Record /\ r /= Odd
    <3>1. k + 1 \in DOMAIN s
      BY <1>1, <2>1
    <3> QED BY <1>1, <2>1, <3>1 DEF RangeOf
  <2>4. PICK out : out = (IF r = Bad THEN "error" ELSE r) /\ o = Read(stream, Counting(1), out)
    BY <1>5, <2>1, <2>3 DEF readIndexed, Parsed
  <2>5. /\ o.data = Counting(1) /\ o.out = out /\ Counting(1).mem = s
        /\ Counting(1).idx = k + 1
    BY <2>4, ReadFields, CountingFacts
  <2>6. Left(o.stream, o.data) = ItemsOf(u)
    BY <1>1, <2>5
  <2> HIDE DEF t, u
  <2>7. /\ r \in Item => /\ ItemsOf(t) /= << >> /\ Head(ItemsOf(t)) = r
                         /\ ItemsOf(u) = Tail(ItemsOf(t))
        /\ r \notin Item => ItemsOf(u) = ItemsOf(t)
    BY <2>2, ItemsStep
  <2> DEFINE v == ItemsOf(t)
             w == ItemsOf(u)
  <2> HIDE DEF r, v, w
  <2>8. /\ r \in Item => v /= << >> /\ Head(v) = r /\ w = Tail(v)
        /\ r \notin Item => w = v
    BY <2>7 DEF v, w
  <2>9. Gives(out, v, w)
    <3>1. CASE r \in Item
      BY <2>4, <2>8, <3>1, Others DEF Gives, Results
    <3>2. CASE r \in {Bad, Masked}
      BY <2>4, <2>8, <3>2, NothingGiven, Others
    <3> QED BY <2>3, <3>1, <3>2 DEF Record, r
  <2> QED BY <1>1, <1>2, <2>5, <2>6, <2>9 DEF v, w
<1> QED BY <1>3, <1>4, <1>5

\* A stream has no masked cells, and only XML files an unknown orientation.
LEMMA NoneMasked ==
  ASSUME Inv, Held, ~failed
  PROVE  /\ type \in Streams => Masked \notin RangeOf(stream.rest)
         /\ type /= "NUKLEI" \/ Promised =>
              Odd \notin RangeOf(stream.rest) \union RangeOf(data.mem)
         /\ type = "CRD" /\ Promised => Bad \notin RangeOf(stream.rest)
<1>1. CASE src = None
  <2>1. stream.rest = << >> /\ data.mem = << >>
    BY <1>1, ClosedFacts DEF Inv, Known, Loaded, Streams
  <2> QED BY <2>1, ClosedFacts
<1>2. CASE src /= None
  <2>1. /\ type \in src.types /\ FromSomeone(src)
        /\ RangeOf(stream.rest) \subseteq RangeOf(src.recs)
        /\ RangeOf(data.mem) \subseteq RangeOf(src.recs)
    BY <1>2 DEF Inv, Known, Held, RecsOf
  <2>2. Masked \in RangeOf(src.recs) => src.types \subseteq Grids
    <3>1. CASE src \in File
      BY <3>1, FileAssumption
    <3>2. ASSUME NEW t, NEW b, FromClient(src, t, b) PROVE Masked \notin RangeOf(src.recs)
      <4>1. src.recs \in Seq(Item)
        BY <3>2, KeptType DEF FromClient, Written
      <4> QED BY <4>1, Distinct DEF RangeOf
    <3>3. CASE src = Emptied
      BY <3>3, ClosedFacts DEF Emptied
    <3> QED BY <2>1, <3>1, <3>2, <3>3 DEF FromSomeone
  <2>3. Odd \in RangeOf(src.recs) => type = "NUKLEI"
    BY <2>1, OddRecords
  <2>4. type \in Streams => type \notin Grids
    BY TypeSets DEF Indexed
  <2> QED BY <1>2, <2>1, <2>2, <2>3, <2>4 DEF Promised
<1> QED BY <1>1, <1>2

LEMMA RecordGives ==
  ASSUME Inv, Held, Sound(stream), Promised, type \in Type, NEW o, o = readObservation_
  PROVE  Gives(o.out, Left(stream, data), Left(o.stream, o.data)) /\ Sound(o.stream)
<1>1. /\ stream \in StreamSet /\ data \in DataSet /\ data.idx \in -1 .. data.n /\ ~failed
  BY Parts DEF Inv, TypeParts, Promised
<1>2. type \in Streams => Masked \notin RangeOf(stream.rest) /\ type \notin Indexed
  BY <1>1, NoneMasked, TypeSets
<1>3. type = "CRD" => Unreadable \intersect RangeOf(stream.rest) = {}
  BY <1>1, NoneMasked DEF Unreadable
<1>4. CASE type \in {"CRD", "TXT"}
  <2>1. o = readLines
    BY <1>2, <1>4 DEF readObservation_, Streams
  <2> QED BY <1>1, <1>2, <1>3, <1>4, <2>1, LinesGive DEF Streams
<1>5. CASE type = "OFF"
  <2>1. o = readOff
    BY <1>2, <1>5 DEF readObservation_, Streams
  <2> QED BY <1>1, <1>2, <1>5, <2>1, OffGives DEF Streams
<1>6. CASE type = "PLY"
  <2>1. o = readPly
    BY <1>2, <1>6 DEF readObservation_, Streams
  <2> QED BY <1>1, <1>2, <1>6, <2>1, PlyGives DEF Streams
<1>7. CASE type = "BUILTINVTK"
  <2>1. o = readVtk
    BY <1>2, <1>7 DEF readObservation_, Streams
  <2> QED BY <1>1, <1>2, <1>7, <2>1, VtkGives DEF Streams
<1>8. CASE type \in Indexed
  <2>1. type \notin {"CRD", "TXT", "OFF", "PLY", "BUILTINVTK"}
    BY <1>8, TypeSets DEF Streams
  <2>2. o = readIndexed
    BY <1>8, <2>1 DEF readObservation_
  <2>3. data.n = Len(data.mem) /\ data.idx >= 0
    <3>1. pc /= "create"
      BY <1>1 DEF Inv, Absent, Known, Starts
    <3> QED BY <1>1, <1>8, <3>1 DEF Inv, Loaded
  <2>4. data.idx \in 0 .. data.n
    BY <1>1, <2>3
  <2>5. Odd \notin RangeOf(data.mem)
    BY <1>1, NoneMasked
  <2> QED BY <1>1, <1>8, <2>2, <2>3, <2>4, <2>5, IndexedGives
<1> QED BY <1>4, <1>5, <1>6, <1>7, <1>8 DEF Type, Streams

(***************************************************************************)
(* What there is to deliver when a reader starts                           *)
(***************************************************************************)
LEMMA OneTypeOnly ==
  ASSUME NEW f, FromSomeone(f), NEW t \in f.types
  PROVE  f.types = {t}
<1>1. CASE f \in File
  <2>1. f \in FileSet /\ Cardinality(f.types) <= 1
    BY <1>1, FileAssumption
  <2>2. f.types \subseteq Type
    BY <2>1 DEF FileSet
  <2>3. IsFiniteSet(Type)
    <3>1. Type = {"CRD", "OFF", "TXT", "PLY", "BUILTINVTK", "OSUTXT", "RIF", "SERIAL", "PCD", "NUKLEI"}
      BY DEF Type, Streams, Indexed, Grids, Archives
    <3> DEFINE T0 == {"CRD"}  T1 == T0 \union {"OFF"}  T2 == T1 \union {"TXT"}
               T3 == T2 \union {"PLY"}  T4 == T3 \union {"BUILTINVTK"}
               T5 == T4 \union {"OSUTXT"}  T6 == T5 \union {"RIF"}  T7 == T6 \union {"SERIAL"}
               T8 == T7 \union {"PCD"}  T9 == T8 \union {"NUKLEI"}
    <3>2. Type = T9
      BY <3>1
    <3>3. IsFiniteSet(T0)
      BY FS_Singleton
    <3>4. \A S, x : IsFiniteSet(S) => IsFiniteSet(S \union {x})
      BY FS_AddElement
    <3> HIDE DEF T0
    <3>5. IsFiniteSet(T5)
      BY <3>3, <3>4
    <3> HIDE DEF T5
    <3>6. IsFiniteSet(T9)
      BY <3>4, <3>5
    <3> QED BY <3>2, <3>6
  <2>4. IsFiniteSet(f.types)
    BY <2>2, <2>3, FS_Subset
  <2>5. ASSUME NEW u \in f.types, u /= t PROVE FALSE
    <3>1. {t, u} \subseteq f.types /\ IsFiniteSet({t, u}) /\ Cardinality({t, u}) <= Cardinality(f.types)
      BY <2>4, FS_Subset
    <3>2. Cardinality({t}) = 1 /\ IsFiniteSet({t})
      BY FS_Singleton
    <3>3. u \notin {t} /\ {t, u} = {t} \union {u}
      BY <2>5
    <3>4. Cardinality({t, u}) = Cardinality({t}) + 1
      BY <3>2, <3>3, FS_AddElement
    <3>5. Cardinality(f.types) \in Nat
      BY <2>4, FS_CardinalityType
    <3> QED BY <2>1, <3>1, <3>2, <3>4, <3>5
  <2> QED BY <2>5
<1>2. ASSUME NEW u, NEW b, FromClient(f, u, b) PROVE f.types = {t}
  BY <1>2 DEF FromClient, Written
<1>3. CASE f = Emptied
  BY <1>3 DEF Emptied
<1> QED BY <1>1, <1>2, <1>3 DEF FromSomeone

LEMMA ContentsType ==
  ASSUME NEW f, f = None \/ FromSomeone(f)
  PROVE  Contents(f) \in Seq(Item)
<1>1. CASE f = None
  <2>1. << >> \in Seq(Item)
    OBVIOUS
  <2> QED BY <1>1, <2>1 DEF Contents
<1>2. CASE f /= None
  <2>1. f.recs \in Seq(Record) /\ f.count \in Nat
    BY <1>2, FileType DEF FileSet
  <2>2. ItemsOf(f.recs) \in Seq(Item)
    BY <2>1, ItemsType
  <2>3. Take(ItemsOf(f.recs), f.count) \in Seq(Item)
    BY <2>1, <2>2, TakeProps
  <2>4. Take(f.recs, f.count) \in Seq(Record)
    BY <2>1, TakeProps
  <2>5. ItemsOf(Take(f.recs, f.count)) \in Seq(Item)
    BY <2>4, ItemsType
  <2> QED BY <1>2, <2>2, <2>3, <2>5 DEF Contents
<1> QED BY <1>1, <1>2

\* A start that returns leaves all of the file to deliver.
LEMMA AllLeft ==
  ASSUME FromSomeone(file), file /= None, type' \in Type,
         NEW o, NEW s, NEW d, Outcome(o, type', s, d), o.verdict = "ok",
         type' \in Indexed \/ type' \in Streams,
         stream' = o.stream, data' = o.data
  PROVE  Left(stream, data)' = Contents(file) /\ Sound(stream)'
<1> DEFINE t == type'
<1>0. file \in FileSet /\ file.recs \in Seq(Record) /\ file.count \in Nat
  BY FileType DEF FileSet
<1>1. /\ t \in file.types
      /\ t \in Streams => o.stream = Opened(file.recs)
      /\ t \in Counted => o.data.n = file.count /\ o.data.idx = 0
      /\ t \in Indexed => /\ o.data.mem = file.recs /\ o.data.n = Len(file.recs)
                          /\ o.data.idx = 0
  BY DEF Outcome
<1>2. file.types = {t}
  BY <1>1, OneTypeOnly
<1> DEFINE r == file.recs
<1>3. t \in Streams => o.stream.rest = r /\ o.stream.good = (file.eol \/ r /= << >>)
  BY <1>0, <1>1, OpenedFacts
<1>4. file.count - 0 = file.count
  BY <1>0
<1> DEFINE g == stream'
           e == data'
<1>5. Left(stream, data)' =
        CASE t \in {"CRD", "TXT"} -> ItemsOf(g.rest)
          [] t = "OFF" -> Take(ItemsOf(g.rest), e.n - e.idx)
          [] t = "PLY" -> ItemsOf(Take(g.rest, e.n - e.idx))
          [] t = "BUILTINVTK" -> IF g.good THEN ItemsOf(Take(g.rest, e.n - e.idx)) ELSE << >>
          [] t \in Indexed -> ItemsOf(SubSeq(e.mem, e.idx + 1, Len(e.mem)))
  BY DEF Left
<1>6. Contents(file) =
        IF t = "OFF" THEN Take(ItemsOf(r), file.count)
        ELSE IF t \in Counted THEN ItemsOf(Take(r, file.count))
        ELSE ItemsOf(r)
  BY <1>2 DEF Contents
<1>7. CASE t \in Streams
  <2>0. t \notin Indexed
    BY <1>7, TypeSets
  <2>1. g.rest = r /\ g.good = (file.eol \/ r /= << >>)
    BY <1>3, <1>7
  <2>2. t \in Counted => e.n = file.count /\ e.idx = 0
    BY <1>1
  <2>3. Sound(stream)'
    BY <2>1 DEF Sound
  <2>4. CASE t \in {"CRD", "TXT"}
    BY <1>5, <1>6, <2>0, <2>1, <2>3, <2>4 DEF Counted
  <2>5. CASE t = "OFF"
    <3>1. t \in Counted
      BY <2>5 DEF Counted
    <3>2. Left(stream, data)' = Take(ItemsOf(g.rest), e.n - e.idx)
      BY <1>5, <2>0, <2>5
    <3> QED BY <1>4, <1>6, <2>1, <2>2, <2>3, <2>5, <3>1, <3>2
  <2>6. CASE t = "PLY"
    <3>1. t \in Counted
      BY <2>6 DEF Counted
    <3>2. Left(stream, data)' = ItemsOf(Take(g.rest, e.n - e.idx))
      BY <1>5, <2>0, <2>6
    <3> QED BY <1>4, <1>6, <2>1, <2>2, <2>3, <2>6, <3>1, <3>2
  <2>7. CASE t = "BUILTINVTK"
    <3>1. t \in Counted
      BY <2>7 DEF Counted
    <3>2. Left(stream, data)' = IF g.good THEN ItemsOf(Take(g.rest, e.n - e.idx)) ELSE << >>
      BY <1>5, <2>0, <2>7
    <3>3. Contents(file) = ItemsOf(Take(r, file.count))
      BY <1>6, <2>7, <3>1
    <3>4. ASSUME ~g.good PROVE Contents(file) = << >>
      <4>1. r = << >>
        BY <2>1, <3>4
      <4>2. Take(r, file.count) = << >>
        BY <1>0, <4>1, TakeNone
      <4> QED BY <3>3, <4>2, ItemsNone
    <3> QED BY <1>4, <2>1, <2>2, <2>3, <3>1, <3>2, <3>3, <3>4
  <2> QED BY <1>7, <2>4, <2>5, <2>6, <2>7 DEF Streams
<1>8. CASE t \in Indexed
  <2>1. t \notin {"CRD", "TXT", "OFF", "PLY", "BUILTINVTK"} /\ t \notin Counted
    BY <1>8, TypeSets DEF Streams
  <2>2. Left(stream, data)' = ItemsOf(SubSeq(e.mem, e.idx + 1, Len(e.mem)))
    BY <1>5, <1>8, <2>1
  <2>3. SubSeq(r, 0 + 1, Len(r)) = r
    BY <1>0, RestStep
  <2>4. Sound(stream)'
    BY <2>1 DEF Sound
  <2> QED BY <1>1, <1>6, <1>8, <2>1, <2>2, <2>3, <2>4
<1> QED BY <1>7, <1>8

(***************************************************************************)
(* The steps of the contract                                               *)
(***************************************************************************)
LEMMA SoundInit == Init => Sound(stream)
BY ClosedFacts, NoneAssumption DEF Init, Sound, Closed

\* What a reader that has started has left is sound, and stays so.
RInv == Inv /\ Held /\ (Promised => Sound(stream))

\* A step that leaves the file and breaks the promise.
LEMMA BreaksPromise ==
  ASSUME file' = file, ~Promised'
  PROVE  Contract!Next
<1>2. Todo' = << >>
  BY DEF Todo
<1>3. Wanted' \subseteq Item
  BY DEF Wanted
<1>4. Contract!Break
  BY <1>2, <1>3 DEF Contract!Break
<1> QED BY <1>4 DEF Contract!Next

\* What is wanted depends on the chain of regions, what is promised on the last
\* start, and what is left on the stream and the data.
LEMMA SameWanted == ASSUME UNCHANGED <<head, next>> PROVE Wanted' = Wanted
BY DEF Wanted, Contained, Chain

LEMMA SamePromised ==
  ASSUME UNCHANGED <<failed, type, src>>, pc' /= "overflow", pc /= "overflow"
  PROVE  Promised' = Promised
BY DEF Promised

LEMMA SameLeft == ASSUME UNCHANGED <<type, stream, data>> PROVE Left(stream, data)' = Left(stream, data)
BY DEF Left

\* A step of the reader is a step of the contract, and keeps the reader sound.
Advances == [Contract!Next]_(Contract!vars) /\ (Promised' => Sound(stream)')

LEMMA StartAdvances ==
  ASSUME RInv, NEW o, Started(o)
  PROVE  Advances
<1>1. /\ Outcome(o, type, stream, data) /\ o.verdict = "ok" /\ type' = type /\ type \in Type
      /\ stream' = o.stream /\ data' = o.data /\ result' = "none" /\ file' = file
      /\ file = None \/ FromSomeone(file)
  BY StartFrames DEF Started, RInv, Inv, Known
<1>2. Left(stream, data)' = Contents(file) /\ Sound(stream)'
  <2>1. CASE file /= None
    <3>1. type' \in Indexed \/ type' \in Streams
      BY <1>1 DEF Type
    <3> QED BY <1>1, <2>1, <3>1, AllLeft
  <2>2. CASE file = None
    <3>1. type' = "CRD" /\ stream'.rest = << >>
      BY <1>1, <2>2, ClosedFacts DEF Outcome
    <3>2. Left(stream, data)' = ItemsOf(stream'.rest)
      BY <3>1, TypeSets DEF Left
    <3> QED BY <2>2, <3>1, <3>2, ItemsNone DEF Contents, Sound
  <2> QED BY <2>1, <2>2
<1>3. CASE ~Promised'
  BY <1>1, <1>2, <1>3, BreaksPromise DEF Advances
<1>4. CASE Promised'
  <2>1. Todo' = Contents(file) /\ Said' = "none" /\ Wanted' \subseteq Item
    BY <1>1, <1>2, <1>4 DEF Todo, Said, Wanted
  <2>2. Contract!Start
    BY <1>1, <1>4, <2>1 DEF Contract!Start
  <2> QED BY <1>2, <2>2 DEF Advances, Contract!Next
<1> QED BY <1>3, <1>4

LEMMA FailedAdvances ==
  ASSUME RInv, Begun \/ Looked \/ Retried \/ Gone \/ \E o : NotReset(o)
  PROVE  Advances
<1>1. failed' = TRUE
  BY FailingFrames DEF RInv
<1>2. file' = file
  BY DEF Begun, Looked, Retried, Gone, NotReset
<1>3. ~Promised'
  BY <1>1 DEF Promised
<1> QED BY <1>2, <1>3, BreaksPromise DEF Advances

\* A step that leaves the promise, the file and what is left.
LEMMA Frame ==
  ASSUME UNCHANGED <<file, type, stream, data, failed, src>>, pc /= "overflow", pc' /= "overflow"
  PROVE  /\ Promised' = Promised /\ Todo' = Todo /\ Sound(stream)' = Sound(stream)
<1>1. Promised' = Promised
  BY SamePromised
<1>2. Left(stream, data)' = Left(stream, data)
  BY SameLeft
<1> QED BY <1>1, <1>2 DEF Todo, Sound

LEMMA RegionAdvances ==
  ASSUME RInv, NEW r \in Region, addRegionOfInterest(r)
  PROVE  Advances
<1>1. UNCHANGED <<file, type, stream, data, failed, src, result>> /\ pc = "idle"
  BY DEF addRegionOfInterest, reader, history
<1>2. CASE pc' = "overflow"
  <2>1. ~Promised'
    BY <1>2 DEF Promised
  <2> QED BY <1>1, <2>1, BreaksPromise DEF Advances
<1>3. CASE pc' /= "overflow"
  <2>1. /\ Promised' = Promised /\ Todo' = Todo
        /\ Sound(stream)' = Sound(stream)
    BY <1>1, <1>3, Frame
  <2>2. CASE Promised
    <3>1. Said' = Said /\ Wanted' \subseteq Item
      BY <1>1, <2>1 DEF Said, Wanted
    <3>2. Contract!Restrict
      BY <1>1, <2>1, <3>1 DEF Contract!Restrict
    <3> QED BY <2>1, <2>2, <3>2 DEF Advances, Contract!Next, RInv
  <2>3. CASE ~Promised
    <3>1. ~Promised'
      BY <2>1, <2>3
    <3> QED BY <1>1, <3>1, BreaksPromise DEF Advances
  <2> QED BY <2>2, <2>3
<1> QED BY <1>2, <1>3

LEMMA CallAdvances ==
  ASSUME RInv, readObservation \/ readObservations
  PROVE  Advances
<1>1. /\ UNCHANGED <<file, type, stream, data, failed, src, head, next>> /\ pc = "idle"
      /\ pc' \in {"one", "all"} /\ result' = "reading"
  BY DEF readObservation, readObservations, reader, regions, history
<1>2. /\ Promised' = Promised /\ Todo' = Todo
      /\ Sound(stream)' = Sound(stream) /\ Wanted' = Wanted
  BY <1>1, Frame, SameWanted
<1>3. CASE Promised
  <2>1. Said' = "reading"
    BY <1>1, <1>2, <1>3 DEF Said
  <2>2. Contract!Call
    BY <1>1, <1>2, <2>1 DEF Contract!Call
  <2> QED BY <1>2, <1>3, <2>2 DEF Advances, Contract!Next, RInv
<1>4. CASE ~Promised
  <2>1. ~Promised'
    BY <1>2, <1>4
  <2> QED BY <1>1, <2>1, BreaksPromise DEF Advances
<1> QED BY <1>3, <1>4

LEMMA ReplaceAdvances ==
  ASSUME RInv, Inv', Replace \/ \E t \in Type, b \in Batch : writeObservations(t, b)
  PROVE  Advances
<1>1. /\ UNCHANGED <<type, stream, data, failed, src, head, next, pc>> /\ pc /= "overflow"
      /\ result' = result \/ pc = "none"
  <2>1. Replace => UNCHANGED <<type, stream, data, failed, src, head, next, pc, result>>
                   /\ pc /= "overflow"
    BY DEF Replace, reader, regions, history
  <2>2. ASSUME NEW t \in Type, NEW b \in Batch, writeObservations(t, b)
        PROVE  UNCHANGED <<type, stream, data, failed, src, head, next, pc>> /\ pc = "none"
    BY <2>2 DEF writeObservations, reader, regions, history
  <2> QED BY <2>1, <2>2
<1>2. Promised' = Promised /\ Left(stream, data)' = Left(stream, data) /\ Wanted' = Wanted
      /\ Sound(stream)' = Sound(stream)
  BY <1>1, SamePromised, SameLeft, SameWanted DEF Sound
<1>3. pc = "none" => ~Promised
  BY DEF RInv, Inv, Absent, Promised
<1>4. Todo' = Todo /\ Said' = Said
  BY <1>1, <1>2, <1>3 DEF Todo, Said
<1>5. Contents(file') \in Seq(Item)
  <2>1. file' = None \/ FromSomeone(file')
    BY DEF Inv, Known
  <2> QED BY <2>1, ContentsType
<1>6. Contract!Replace
  BY <1>2, <1>4, <1>5 DEF Contract!Replace
<1> QED BY <1>2, <1>6 DEF Advances, Contract!Next, RInv

LEMMA StutterAdvances == ASSUME RInv, UNCHANGED vars PROVE Advances
<1>1. UNCHANGED <<file, type, stream, data, failed, src, head, next, pc, result>>
  BY DEF vars, reader, regions, history
<1>2. Left(stream, data)' = Left(stream, data) /\ Wanted' = Wanted
      /\ Sound(stream)' = Sound(stream)
  BY <1>1, SameLeft, SameWanted DEF Sound
<1>3. Promised' = Promised
  BY <1>1 DEF Promised
<1>4. Todo' = Todo /\ Said' = Said
  BY <1>1, <1>2, <1>3 DEF Todo, Said
<1> QED BY <1>1, <1>2, <1>3, <1>4 DEF Advances, Contract!vars, RInv

\* What is left is a sequence of observations; so are its tail and its end.
LEMMA LeftType ==
  ASSUME Inv, type \in Type, ~failed
  PROVE  Left(stream, data) \in Seq(Item)
<1>1. stream \in StreamSet /\ data \in DataSet /\ data.idx \in -1 .. data.n
  BY Parts DEF Inv, TypeParts
<1>2. stream.rest \in Seq(Record) /\ data.mem \in Seq(Record) /\ data.n - data.idx \in Nat
  BY <1>1, Expected DEF StreamSet, DataSet
<1> DEFINE r == stream.rest
           m == data.n - data.idx
<1>3. ItemsOf(r) \in Seq(Item) /\ << >> \in Seq(Item)
  BY <1>2, ItemsType
<1> HIDE DEF m
<1>4. m \in Nat
  BY <1>2 DEF m
<1>5. Take(ItemsOf(r), m) \in Seq(Item)
  BY <1>3, <1>4, TakeProps
<1>6. Take(r, m) \in Seq(Record)
  BY <1>2, <1>4, TakeProps
<1>7. ItemsOf(Take(r, m)) \in Seq(Item)
  BY <1>6, ItemsType
<1>8. type \in Indexed => ItemsOf(SubSeq(data.mem, data.idx + 1, Len(data.mem))) \in Seq(Item)
  <2> SUFFICES ASSUME type \in Indexed
               PROVE  ItemsOf(SubSeq(data.mem, data.idx + 1, Len(data.mem))) \in Seq(Item)
    OBVIOUS
  <2>1. data.n = Len(data.mem) /\ data.idx >= 0
    BY DEF Inv, Loaded, Absent, Known, Starts
  <2>2. data.idx \in 0 .. Len(data.mem)
    BY <1>1, <2>1
  <2>3. SubSeq(data.mem, data.idx + 1, Len(data.mem)) \in Seq(Record)
    BY <1>2, <2>2, Rest
  <2> QED BY <2>3, ItemsType
<1> QED BY <1>3, <1>5, <1>7, <1>8, LeftIs DEF Type, Streams, m

LEMMA TailIsRest ==
  ASSUME NEW S, NEW t \in Seq(S), t /= << >>
  PROVE  1 \in 0 .. Len(t) /\ SubSeq(t, 1 + 1, Len(t)) = Tail(t)
<1>1. Len(t) \in Nat /\ Len(t) /= 0
  BY EmptySeq
<1>2. 0 < Len(t) /\ 1 \in 0 .. Len(t) /\ 0 \in Nat
  BY <1>1
<1>3. SubSeq(t, 0 + 1, Len(t)) = t
  BY <1>2, RestStep
<1>4. SubSeq(t, (0 + 1) + 1, Len(t)) = Tail(SubSeq(t, 0 + 1, Len(t)))
  BY <1>2, RestStep
<1>5. (0 + 1) + 1 = 1 + 1
  OBVIOUS
<1> QED BY <1>2, <1>3, <1>4, <1>5

LEMMA EndsAreRests ==
  ASSUME NEW S, NEW t \in Seq(S), NEW u \in {t, << >>}
  PROVE  \E n \in 0 .. Len(t) : u = SubSeq(t, n + 1, Len(t))
<1>1. Len(t) \in Nat /\ 0 \in 0 .. Len(t) /\ Len(t) \in 0 .. Len(t)
  OBVIOUS
<1>2. SubSeq(t, 0 + 1, Len(t)) = t /\ SubSeq(t, Len(t) + 1, Len(t)) = << >>
  BY <1>1, RestStep
<1> QED BY <1>1, <1>2

LEMMA RoundAdvances == ASSUME RInv, Round PROVE Advances
<1> DEFINE o == readObservation_
           t == Left(stream, data)
           u == Left(o.stream, o.data)
<1>1. /\ pc \in {"one", "all"} /\ stream' = o.stream /\ data' = o.data
      /\ UNCHANGED <<file, type, head, next, failed, src>>
      /\ type \in Type
  BY DEF Round, regions, history, RInv, Inv, Absent
<1>2. /\ o.out \in Item => Filter(o.out)
      /\ o.out = Masked => UNCHANGED <<pc, result, kc>>
      /\ o.out \notin Item /\ o.out /= Masked => pc' = "idle" /\ result' = o.out
  BY DEF Round
<1>3. o.out \in Item \union {Masked, "end", "error", "ioerror", "undefined"}
  <2>1. Reads(o)
    BY <1>1, RecordRead DEF RInv, Inv, TypeOK, Loaded, StreamSet, DataSet
  <2> HIDE DEF o
  <2> QED BY <2>1 DEF Reads
<1>4. Wanted' = Wanted
  BY <1>1, SameWanted
<1>5. ASSUME ~Promised PROVE Advances
  <2>1. ~Promised'
    BY <1>1, <1>5 DEF Promised
  <2> QED BY <1>1, <2>1, BreaksPromise DEF Advances
<1>6. ASSUME pc' = "overflow" PROVE Advances
  <2>1. ~Promised'
    BY <1>6 DEF Promised
  <2> QED BY <1>1, <2>1, BreaksPromise DEF Advances
<1>7. ASSUME Promised, pc' /= "overflow" PROVE Advances
  <2>1. Gives(o.out, t, u) /\ Sound(o.stream)
    BY <1>1, <1>7, RecordGives DEF RInv
  <2>2. Left(stream, data)' = u /\ Sound(stream)'
    <3> HIDE DEF o
    <3> QED BY <1>1, <2>1 DEF Left, Sound
  <2>3. Promised'
    BY <1>1, <1>7, SamePromised
  <2> HIDE DEF o, t, u
  <2>4. Todo = t /\ Todo' = u /\ Said = result /\ Said' = result'
    BY <1>7, <2>2, <2>3 DEF Todo, Said, t
  <2>5. CASE o.out \in Item
    <3>1. t /= << >> /\ Head(t) = o.out /\ u = Tail(t)
      BY <2>1, <2>5 DEF Gives
    <3>2. o.out \in Wanted <=> head = None \/ Contained(o.out)
      BY <2>5 DEF Wanted
    <3>3. CASE ~(head = None \/ Contained(o.out))
      <4>1. result' = result
        BY <1>2, <2>5, <3>3 DEF Filter
      <4>2. Contract!PassOver
        BY <1>1, <1>4, <1>7, <2>3, <2>4, <3>1, <3>2, <3>3, <4>1 DEF Contract!PassOver
      <4> QED BY <1>7, <2>2, <4>2 DEF Advances, Contract!Next
    <3>4. CASE (head = None \/ Contained(o.out)) /\ result' = o.out
      <4>1. Contract!Deliver
        BY <1>1, <1>4, <1>7, <2>3, <2>4, <3>1, <3>2, <3>4 DEF Contract!Deliver
      <4> QED BY <1>7, <2>2, <4>1 DEF Advances, Contract!Next
    <3>5. CASE (head = None \/ Contained(o.out)) /\ result' = "mismatch"
      <4>1. t \in Seq(Item)
        BY <1>1, <1>7, LeftType DEF t, RInv, Promised
      <4>2. 1 \in 0 .. Len(t) /\ SubSeq(t, 1 + 1, Len(t)) = Tail(t)
        BY <3>1, <4>1, TailIsRest
      <4>3. \E n \in 0 .. Len(Todo) : Todo' = SubSeq(Todo, n + 1, Len(Todo))
        BY <2>4, <3>1, <4>2
      <4>4. Contract!Throw
        BY <1>1, <1>4, <1>7, <2>3, <2>4, <3>5, <4>3 DEF Contract!Throw
      <4> QED BY <1>7, <2>2, <4>4 DEF Advances, Contract!Next
    <3>6. head = None \/ Contained(o.out) => Deliver(o.out)
      BY <1>2, <2>5 DEF Filter
    <3>7. Deliver(o.out) => result' = o.out \/ result' = "mismatch"
      BY DEF Deliver
    <3> QED BY <3>3, <3>4, <3>5, <3>6, <3>7
  <2>6. CASE o.out = Masked
    <3>1. u = t /\ result' = result
      BY <1>2, <2>1, <2>6 DEF Gives
    <3> QED BY <1>1, <1>4, <1>7, <2>2, <2>3, <2>4, <3>1 DEF Advances, Contract!vars
  <2>7. CASE o.out \in {"end", "error", "ioerror", "undefined"}
    <3>1. o.out \notin Item /\ o.out /= Masked /\ result' = o.out
      BY <1>2, <2>7 DEF Results
    <3>2. CASE o.out = "end"
      <4>1. t = << >> /\ u = t
        BY <2>1, <3>2 DEF Gives
      <4>2. Contract!End
        BY <1>1, <1>4, <1>7, <2>3, <2>4, <3>1, <3>2, <4>1 DEF Contract!End
      <4> QED BY <1>7, <2>2, <4>2 DEF Advances, Contract!Next
    <3>3. CASE o.out \in {"error", "ioerror"}
      <4>1. u \in {t, << >>}
        BY <2>1, <3>3 DEF Gives
      <4>2. t \in Seq(Item)
        BY <1>1, <1>7, LeftType DEF t, RInv, Promised
      <4>3. \E n \in 0 .. Len(t) : u = SubSeq(t, n + 1, Len(t))
        BY <4>1, <4>2, EndsAreRests
      <4>4. Contract!Throw
        BY <1>1, <1>4, <1>7, <2>3, <2>4, <3>1, <3>3, <4>3 DEF Contract!Throw
      <4> QED BY <1>7, <2>2, <4>4 DEF Advances, Contract!Next
    <3> QED BY <2>1, <2>7, <3>2, <3>3 DEF Gives
  <2> QED BY <1>3, <2>5, <2>6, <2>7
<1> QED BY <1>5, <1>6, <1>7

(***************************************************************************)
(* The refinement                                                          *)
(***************************************************************************)
LEMMA RInit == Init => RInv /\ Contract!Init
<1> SUFFICES ASSUME Init PROVE RInv /\ Contract!Init
  OBVIOUS
<1>1. Inv /\ Held /\ Sound(stream)
  BY InvInit, HeldInit, SoundInit
<1>2. ~Promised
  BY DEF Init, Promised
<1>3. Contents(file) \in Seq(Item)
  BY <1>1, ContentsType DEF Inv, Known
<1>4. Todo = << >> /\ Said = "none" /\ Wanted \subseteq Item
  BY <1>2 DEF Todo, Said, Wanted
<1> QED BY <1>1, <1>2, <1>3, <1>4 DEF RInv, Contract!Init

LEMMA RNext == RInv /\ [Next]_vars => RInv' /\ [Contract!Next]_(Contract!vars)
<1> SUFFICES ASSUME RInv, [Next]_vars PROVE RInv' /\ [Contract!Next]_(Contract!vars)
  OBVIOUS
<1>1. Inv' /\ Held'
  BY InvNext, HeldNext DEF RInv
<1>2. Advances
  <2>1. CASE Round
    BY <2>1, RoundAdvances
  <2>2. CASE UNCHANGED vars
    BY <2>2, StutterAdvances
  <2>3. CASE Replace
    BY <1>1, <2>3, ReplaceAdvances
  <2>4. CASE readObservation \/ readObservations
    BY <2>4, CallAdvances
  <2>5. ASSUME NEW r \in Region, addRegionOfInterest(r) PROVE Advances
    BY <2>5, RegionAdvances
  <2>6. CASE destroyReader
    <3>1. Gone
      BY <2>6 DEF destroyReader, Gone
    <3> QED BY <3>1, FailedAdvances
  <2>7. CASE reset \/ createReaderOfAnyType
    BY <2>7, CreateSteps, BeginSteps, FailedAdvances DEF RInv
  <2>8. ASSUME NEW t \in Type, createReader(t) PROVE Advances
    BY <2>8, CreateSteps, BeginSteps, FailedAdvances DEF RInv
  <2>9. CASE Starting
    BY <2>9, StartingSteps, FailedAdvances, StartAdvances DEF RInv
  <2>10. ASSUME NEW t \in Type, NEW b \in Batch, writeObservations(t, b) PROVE Advances
    BY <1>1, <2>10, ReplaceAdvances
  <2> QED BY <2>1, <2>2, <2>3, <2>4, <2>5, <2>6, <2>7, <2>8, <2>9, <2>10 DEF Next, ClientNext
<1> QED BY <1>1, <1>2 DEF RInv, Advances

\* Whatever the format, the files, the regions and the number of readers, a
\* reader delivers the wanted observations of its file in their order and once
\* each, and ends when there is none left: it implements ReaderContract.
THEOREM KeepsItsContract == Spec => ImplementsContract
<1>1. Spec => []RInv
  BY RInit, RNext, PTL DEF Spec
<1>2. RInv /\ [Next]_vars => [Contract!Next]_(Contract!vars)
  BY RNext
<1>3. Init => Contract!Init
  BY RInit
<1> QED BY <1>1, <1>2, <1>3, PTL DEF Spec, ImplementsContract, Contract!Spec

(***************************************************************************)
(* How long a call may take                                                *)
(***************************************************************************)
\* The lines of the stream and the records that the index has not reached.
Expects(d) == IF d.idx < d.n THEN d.n - d.idx ELSE 0
Work(s, d) == Len(s.rest) + Expects(d)

\* What is given was the next line, or is what the index pointed to.
LEMMA Taken ==
  ASSUME stream \in StreamSet, data \in DataSet, type \in Type,
         NEW o, o = readObservation_, o.out \in Item \union {Masked}
  PROVE  \/ ~NoLine /\ o.stream.rest = Tail(stream.rest) /\ o.data \in {data, Counting(1)}
         \/ o.stream = stream /\ o.data = Counting(1) /\ data.idx < data.n
<1>0. o.out \notin {"error", "ioerror", "end", "undefined"}
  BY Others DEF Results
<1>1. type \in Streams => type \notin Indexed
  BY TypeSets
<1>2. CASE type \in {"CRD", "TXT"}
  <2>1. o = readLines
    BY <1>1, <1>2 DEF readObservation_, Streams
  <2>2. o = Read(AfterLine, data, Line) /\ ~NoLine
    BY <1>0, <2>1, ReadFields DEF readLines
  <2> QED BY <2>2, ReadFields, StreamAfter
<1>3. CASE type = "OFF"
  <2>1. o = readOff
    BY <1>1, <1>3 DEF readObservation_, Streams
  <2>2. o = Read(AfterLine, Counting(1), Line) /\ ~NoLine
    BY <1>0, <2>1, ReadFields DEF readOff
  <2> QED BY <2>2, ReadFields, StreamAfter
<1>4. CASE type = "PLY"
  <2>1. o = readPly
    BY <1>1, <1>4 DEF readObservation_, Streams
  <2>2. ~NoLine /\ \E out : o = Read(AfterLine, Counting(1), out)
    BY <1>0, <2>1, ReadFields DEF readPly
  <2> QED BY <2>2, ReadFields, StreamAfter
<1>5. CASE type = "BUILTINVTK"
  <2>1. o = readVtk
    BY <1>1, <1>5 DEF readObservation_, Streams
  <2> DEFINE q == [stream EXCEPT !.rest = Tail(@)]
  <2>2. o = Read(q, Counting(1), Line) /\ ~NoLine
    BY <1>0, <2>1, ReadFields DEF readVtk
  <2>3. q.rest = Tail(stream.rest)
    BY <2>2, StreamAfter
  <2> HIDE DEF q
  <2> QED BY <2>2, <2>3, ReadFields
<1>6. CASE type \in Indexed
  <2>1. type \notin {"CRD", "TXT", "OFF", "PLY", "BUILTINVTK"}
    BY <1>6, TypeSets DEF Streams
  <2>2. o = readIndexed
    BY <1>6, <2>1 DEF readObservation_
  <2>3. ~(data.idx >= data.n) /\ \E out : o = Read(stream, Counting(1), out)
    BY <1>0, <2>2, ReadFields DEF readIndexed
  <2>4. data.idx < data.n
    BY <2>3, CountingFacts
  <2> QED BY <2>3, <2>4, ReadFields
<1> QED BY <1>2, <1>3, <1>4, <1>5, <1>6 DEF Type, Streams

LEMMA WorkType ==
  ASSUME NEW s \in StreamSet, NEW d \in DataSet
  PROVE  Len(s.rest) \in Nat /\ Expects(d) \in Nat /\ Work(s, d) \in Nat
<1>1. Len(s.rest) \in Nat
  BY DEF StreamSet
<1>2. d.idx \in Int /\ d.n \in Nat
  BY DEF DataSet
<1>3. Expects(d) \in Nat
  BY <1>2 DEF Expects
<1> QED BY <1>1, <1>3 DEF Work

LEMMA Shrinks ==
  ASSUME stream \in StreamSet, data \in DataSet, type \in Type,
         NEW o, o = readObservation_, o.out \in Item \union {Masked}
  PROVE  Work(o.stream, o.data) < Work(stream, data)
<1>1. /\ Counting(1).n = data.n /\ Counting(1).idx = data.idx + 1
      /\ data.idx \in Int /\ data.n \in Nat
  BY CountingFacts
<1>2. Expects(Counting(1)) <= Expects(data)
      /\ (data.idx < data.n => Expects(Counting(1)) < Expects(data))
      /\ Expects(data) \in Nat /\ Expects(Counting(1)) \in Nat
  BY <1>1 DEF Expects
<1>3. ~NoLine => Len(Tail(stream.rest)) < Len(stream.rest)
                 /\ Len(Tail(stream.rest)) \in Nat
  BY HeadTailProperties, EmptySeq DEF StreamSet, NoLine
<1>4. Len(stream.rest) \in Nat
  BY DEF StreamSet
<1>5. CASE ~NoLine /\ o.stream.rest = Tail(stream.rest) /\ o.data \in {data, Counting(1)}
  <2>1. Expects(o.data) \in Nat /\ Expects(o.data) <= Expects(data)
    BY <1>2, <1>5
  <2> QED BY <1>2, <1>3, <1>4, <1>5, <2>1 DEF Work
<1>6. CASE o.stream = stream /\ o.data = Counting(1) /\ data.idx < data.n
  BY <1>2, <1>4, <1>6 DEF Work
<1> QED BY <1>5, <1>6, Taken

LEMMA RoundShrinks ==
  Inv /\ [Next]_vars =>
    [Round /\ pc' \in {"one", "all"} => Work(stream, data)' < Work(stream, data)]_vars
<1> SUFFICES ASSUME Inv, Round, pc' \in {"one", "all"}
             PROVE  Work(stream, data)' < Work(stream, data)
  OBVIOUS
<1> DEFINE o == readObservation_
<1>1. pc \in {"one", "all"} /\ type \in Type /\ stream \in StreamSet /\ data \in DataSet
  BY Parts DEF Round, Inv, Absent, TypeParts
<1>2. stream' = o.stream /\ data' = o.data
  BY DEF Round
<1>3. o.out \in Item \union {Masked}
  BY DEF Round
<1>4. Work(o.stream, o.data) < Work(stream, data)
  BY <1>1, <1>3, Shrinks
<1> HIDE DEF o
<1> QED BY <1>2, <1>4 DEF Work, Expects

\* A call of readObservation() or readObservations() that goes on has less to
\* read after each round, and what it has to read is finite: whatever the file,
\* no call makes rounds for ever.  (What is left to Ends is that the rounds are
\* made.)
THEOREM RoundsRunOut ==
  Spec => /\ [](Work(stream, data) \in Nat)
          /\ [][Round /\ pc' \in {"one", "all"} => Work(stream, data)' < Work(stream, data)]_vars
<1>1. Inv => Work(stream, data) \in Nat
  BY Parts, WorkType DEF Inv, TypeParts
<1> QED BY <1>1, Invariant, RoundShrinks, PTL DEF Spec
=============================================================================
