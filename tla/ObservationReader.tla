------------------------- MODULE ObservationReader -------------------------
(***************************************************************************)
(* nuklei::ObservationReader (io/ObservationIO.cpp), the readers of ten    *)
(* file formats that derive from it (io/*ObservationIO.cpp), the regions   *)
(* of interest that filter what they read (base/nuklei/RegionOfInterest.h) *)
(* and writeObservations(), which writes a file at once.                   *)
(*                                                                         *)
(* A file is a signature, a number of records it declares, and its         *)
(* records; what the text of a record looks like is left out, and so are   *)
(* colours and the rounding of numbers.  One client creates a reader,      *)
(* reads one observation or all of them, resets it and destroys it, while  *)
(* other programs may put another file in the place of the one being read, *)
(* by a rename: a stream that is open still reads the old one.  Some       *)
(* readers open their file twice or three times to start, and find there   *)
(* whatever file is in place each time.                                    *)
(***************************************************************************)
EXTENDS Integers, Sequences, FiniteSets

CONSTANTS
  Item,        \* the observations
  KindOf,      \* KindOf[i]: the type of the kernel of observation i
  Bare,        \* Bare[i]: observation i without its weight and bandwidths
  Bad,         \* a record that cannot be parsed
  Odd,         \* a kernel whose orientation is of no domain the reader knows
  Masked,      \* a cell of a grid whose flag says that it holds no point
  File,        \* the files other programs may put in place
  Batch,       \* the collections the client may write
  Region,      \* the regions of interest
  Covers,      \* Covers[r]: the observations for which positive_ == contains_
  None,
  MaxStarts    \* bound: the calls to createReader() and reset()

Streams   == {"CRD", "OFF", "TXT", "PLY", "BUILTINVTK"}  \* read as they go
Grids     == {"OSUTXT", "RIF"}          \* loaded by init_(), and then closed
Archives  == {"SERIAL", "PCD"}          \* loaded into a KernelCollection
Indexed   == Grids \union Archives \union {"NUKLEI"}
Type      == Streams \union Indexed
Counted   == {"OFF", "PLY", "BUILTINVTK"}  \* streams that declare their length
Located   == {"CRD", "OFF", "PLY", "BUILTINVTK"} \union Grids \* hold r3 kernels only
Complete  == {"SERIAL", "NUKLEI"}       \* keep weights and bandwidths

Kind == {"r3", "r3xs2", "r3xs2p", "se3"}
Results == {"none", "reading", "end", "error", "ioerror", "undefined", "mismatch"}
Record == Item \union {Bad, Odd, Masked}
RangeOf(s) == {s[i] : i \in DOMAIN s}

\* eol: does the last line end with a newline?  of: the collection that the
\* client had written to it, or None for the file of another program.
FileSet == [types : SUBSET Type, count : Nat, recs : Seq(Record),
            eol : BOOLEAN, of : Batch \union {None}]

ASSUME ItemAssumption ==
  /\ ({Bad, Odd, Masked, None} \union Results) \intersect Item = {}
  /\ Cardinality({Bad, Odd, Masked}) = 3
  /\ {Bad, Odd, Masked} \intersect Results = {}
  /\ KindOf \in [Item -> Kind]
ASSUME BareAssumption ==
  /\ Bare \in [Item -> Item]
  /\ \A i \in Item : Bare[Bare[i]] = Bare[i] /\ KindOf[Bare[i]] = KindOf[i]
ASSUME RegionAssumption == Covers \in [Region -> SUBSET Item]
ASSUME NoneAssumption == None \notin Region \union Type /\ None \notin Batch
ASSUME StartsAssumption == MaxStarts \in Nat
\* Only a grid has masked cells and declares as many records as it is to hold
\* or more; an archive holds one type of kernels.  What a format cannot write
\* down is in none of its files.
ASSUME FileAssumption ==
  \A f \in File :
    /\ f \in FileSet /\ f.of = None /\ Cardinality(f.types) <= 1
    /\ Masked \in RangeOf(f.recs) => f.types \subseteq Grids
    /\ Odd \in RangeOf(f.recs) => f.types \subseteq {"NUKLEI"}
    /\ f.types \intersect Grids /= {} => Len(f.recs) <= f.count
    /\ \A i \in RangeOf(f.recs) \intersect Item :
         /\ f.types \intersect Located /= {} => KindOf[i] = "r3"
         /\ f.types \intersect {"TXT", "PCD"} /= {} => KindOf[i] /= "r3xs2"
         /\ f.types \intersect Complete = {} => Bare[i] = i
    /\ f.types \intersect Archives /= {} =>
         \A i, j \in RangeOf(f.recs) \intersect Item : KindOf[i] = KindOf[j]
ASSUME BatchAssumption ==
  \A kc \in Batch : kc \in Seq(Item) /\ Cardinality({KindOf[kc[i]] : i \in DOMAIN kc}) <= 1

VARIABLES
  file,     \* the file the client names, or None
  type,     \* the type of the reader
  stream,   \* in_: is it open (NUKLEI: has it a root), the records left, the
            \* last newline, good()
  data,     \* what init_() loaded, the number of records (n) and the index
  head,     \* roi_: the first region of interest, or None
  next,     \* next[r]: next_ of region r, or None
  pc,       \* no reader, none of its calls, or the call that is running
  result,   \* what the last readObservation() returned or threw
  kc,       \* the collection readObservations() fills
  tries,    \* the types createReader() has still to try
  pass,     \* how often init_() has opened its file
  seen,     \* the file init_() has checked before it opened it again, or None
  starts,
  src,      \* history: the file at the last start, or None
  failed,   \* history: did the last start throw?
  whole,    \* history: has nothing been read but by the last readObservations()?
  added,    \* history: the regions that have been added to a reader
  relinked  \* history: was one of them added twice?

reader == <<type, stream, data>>
regions == <<head, next, added, relinked>>
start == <<tries, pass, seen>>
history == <<src, failed, starts>>
vars == <<file, reader, regions, pc, result, kc, start, history, whole>>

Closed == [open |-> FALSE, rest |-> << >>, eol |-> TRUE, good |-> TRUE]
Nothing == [mem |-> << >>, n |-> 0, idx |-> -1]

TypeOK ==
  /\ type \in Type \union {None}
  /\ stream \in [open : BOOLEAN, rest : Seq(Record), eol : BOOLEAN, good : BOOLEAN]
  /\ data \in [mem : Seq(Record), n : Nat, idx : Int]
  /\ data.idx \in -1 .. data.n \/ failed
  /\ head \in Region \union {None} /\ next \in [Region -> Region \union {None}]
  /\ pc \in {"none", "create", "reset", "idle", "one", "all", "overflow"}
  /\ result \in Results \union Item
  /\ kc \in Seq(Item)
  /\ tries \in Seq(Type) /\ pass \in 0 .. 2
  /\ starts \in 0 .. MaxStarts

Init ==
  /\ file \in File \union {None}
  /\ type = None /\ stream = Closed /\ data = Nothing
  /\ head = None /\ next = [r \in Region |-> None]
  /\ pc = "none" /\ result = "none" /\ kc = << >>
  /\ tries = << >> /\ pass = 0 /\ seen = None
  /\ starts = 0 /\ src = None /\ failed = TRUE /\ whole = FALSE
  /\ added = {} /\ relinked = FALSE

(***************************************************************************)
(* init_(): what it leaves in the stream and the data of a reader of type  *)
(* t that starts with stream s and data d, and what it throws.             *)
(***************************************************************************)
Init_(s, d, verdict) == [stream |-> s, data |-> d, verdict |-> verdict]

Opened(rest) == [open |-> TRUE, rest |-> rest, eol |-> file.eol,
                 good |-> file.eol \/ rest /= << >>]
\* Where the parser may stand in a file that it refuses.
PartWay == {[Opened(SubSeq(file.recs, k + 1, Len(file.recs))) EXCEPT !.good = g] :
              k \in 0 .. Len(file.recs), g \in BOOLEAN}
AtTheEnd == [Opened(<< >>) EXCEPT !.good = FALSE]

\* A wrong init_(): a line of 3 tokens is accepted after one of 7.
SameTokensAny(i, j) == i \in Item /\ j \in Item

\* TxtReader::init_() takes lines of 6 and of 7 tokens for the same.
SameTokens(i, j) == KindOf[i] = KindOf[j] \/ "r3" \notin {KindOf[i], KindOf[j]}

Recognized(t) ==
  /\ file /= None /\ t \in file.types
  /\ t = "TXT" => \A i, j \in RangeOf(file.recs) \ {Bad} : SameTokens(i, j)

\* How often init_() opens its file.
Opens(t) == CASE t = "CRD" -> 3 [] t \in Archives \union {"TXT"} -> 2 [] OTHER -> 1

\* The last time: CRD asks the first time how many lines there are to be, and
\* counts them the second; it does not look whether the file is still there.
initLines(t, s, d) ==
  IF file /= None THEN {Init_(Opened(file.recs), d, "ok")}
  ELSE {Init_(Closed, d, IF t = "CRD" THEN "ok" ELSE "ioerror")}

initCounted(t, s, d) ==
  IF s.open THEN {Init_(s, d, "error")}                 \* NUKLEI_ASSERT(!in_.is_open())
  ELSE IF file = None THEN {Init_(s, d, "ioerror")}
  ELSE IF ~Recognized(t) THEN {Init_(p, d, "ioerror") : p \in PartWay}
  ELSE {Init_(Opened(file.recs), [mem |-> d.mem, n |-> file.count, idx |-> 0], "ok")}

\* rows_ * columns_ after a header that is refused: operator>> has set one of
\* them to 0, or both are read already; RIFReader begins by setting both to -1,
\* whose product is 1 in the arithmetic of unsigned.
RefusedSize(t, d) == IF t = "RIF" THEN {d.n, 1, 0} ELSE {file.count, 0}

\* A wrong init_(): the numbers of a grid are read without NUKLEI_ASSERT.
IntactAnyway(t) == file.eol

\* OsuTxtReader asserts that the numbers are not the last of the file.
AllThere == Len(file.recs) = file.count /\ Bad \notin RangeOf(file.recs)
Intact(t) == AllThere /\ (t = "OSUTXT" => file.eol)

initGrid(t, s, d) ==
  IF s.open THEN {Init_(s, d, "error")}
  ELSE IF file = None THEN {Init_(s, d, "ioerror")}
  ELSE IF ~Recognized(t)
    THEN {Init_(Opened(<< >>), [d EXCEPT !.n = m], "ioerror") : m \in RefusedSize(t, d)}
  ELSE IF ~Intact(t)     \* the vectors are cleared, and filled in part
    THEN {Init_(Opened(<< >>), [d EXCEPT !.mem = IF AllThere THEN file.recs ELSE << >>,
                                         !.n = file.count], "error")}
  ELSE {Init_(Closed, [mem |-> file.recs, n |-> file.count, idx |-> 0], "ok")}

\* kc_ when an archive has been read as far as it can be: the kernels before
\* the one that cannot; PCL makes a cloud of a whole file or of none.
Readable(t, f) ==
  IF Bad \notin RangeOf(f.recs) THEN f.recs
  ELSE IF t = "PCD" THEN << >>
  ELSE SubSeq(f.recs, 1, (CHOOSE k \in DOMAIN f.recs :
         f.recs[k] = Bad /\ \A j \in 1 .. k - 1 : f.recs[j] /= Bad) - 1)

\* A wrong init_(): the collection is not cleared before it is loaded.
initArchiveUncleared(t, s, d) ==
  IF file = None \/ (file /= None /\ Bad \in RangeOf(file.recs)) THEN {Init_(s, d, "ioerror")}
  ELSE {Init_(s, [mem |-> file.recs, n |-> Len(file.recs), idx |-> 0], "ok")}

\* What an archive that cannot be read to its end has put into the collection
\* stays there, and the index stays where it was.
initArchive(t, s, d) ==
  IF file = None THEN {Init_(s, [d EXCEPT !.mem = << >>, !.n = 0], "ioerror")}
  ELSE LET kernels == Readable(t, file)
           loaded == [d EXCEPT !.mem = kernels, !.n = Len(kernels)]
       IN  IF Bad \in RangeOf(file.recs) THEN {Init_(s, loaded, "ioerror")}
           ELSE {Init_(s, [loaded EXCEPT !.idx = 0], "ok")}

\* LoadFile() destroys the document in memory, to which e_ refers.  There is no
\* root afterwards when it finds no file, or none that it can parse; in a
\* document of another kind there is one, but no collection of kernels.
initDocument(s, d) ==
  IF Recognized("NUKLEI")
    THEN {Init_([s EXCEPT !.open = TRUE],
                [mem |-> file.recs, n |-> Len(file.recs), idx |-> 0], "ok")}
    ELSE {Init_([s EXCEPT !.open = root], [d EXCEPT !.mem = << >>], "ioerror") :
            root \in {FALSE, file /= None}}

init(t, s, d) ==
  CASE t \in {"CRD", "TXT"} -> initLines(t, s, d)
    [] t \in Counted        -> initCounted(t, s, d)
    [] t \in Grids          -> initGrid(t, s, d)
    [] t \in Archives       -> initArchive(t, s, d)
    [] t = "NUKLEI"         -> initDocument(s, d)

(***************************************************************************)
(* Creating and resetting a reader                                         *)
(***************************************************************************)
Begin(call) ==
  /\ starts < MaxStarts
  /\ starts' = starts + 1
  /\ pc' = call /\ result' = "none"
  /\ pass' = 0 /\ seen' = None
  /\ failed' = TRUE /\ whole' = TRUE

createReaderOf(types) ==
  /\ pc = "none"
  /\ Begin("create")
  /\ type' = Head(types) /\ tries' = Tail(types)
  /\ UNCHANGED <<file, stream, data, regions, kc, src>>

\* createReader(arg, t)
createReader(t) == createReaderOf(<<t>>)

\* createReader(arg) tries the types in this order.  COVIS3D and IIS, which it
\* tries too, refuse the files of the other types.
DetectionOrder == <<"NUKLEI", "OSUTXT", "PCD", "PLY", "RIF", "SERIAL", "CRD",
                    "OFF", "BUILTINVTK", "TXT">>
createReaderOfAnyType == createReaderOf(DetectionOrder)

\* What reset() does before it calls init(): PLYReader does not close its
\* stream, and the readers that load their file have closed it.
reset ==
  /\ pc = "idle"
  /\ Begin("reset")
  /\ stream' = IF type \in Streams \ {"PLY"} THEN Closed ELSE stream
  /\ data' = IF type = "BUILTINVTK" THEN Nothing ELSE data
  /\ kc' = << >>
  /\ UNCHANGED <<file, type, regions, tries, src>>

\* The client has no reader: its destructor has run, or its constructor threw.
Destroyed(r) ==
  /\ pc' = "none" /\ type' = None /\ stream' = Closed /\ data' = Nothing
  /\ head' = None /\ result' = r /\ kc' = << >>
  /\ tries' = << >> /\ pass' = 0 /\ seen' = None
  /\ src' = None /\ failed' = TRUE /\ whole' = FALSE

\* init_() has thrown: reset() throws, and leaves the reader there.  A reader
\* being created is destroyed, and only ObservationIOError makes createReader()
\* try the next type.
Thrown(o) ==
  \/ /\ pc = "reset"
     /\ pc' = "idle" /\ stream' = o.stream /\ data' = o.data /\ result' = o.verdict
     /\ pass' = 0 /\ src' = file
     /\ UNCHANGED <<file, type, regions, kc, tries, seen, failed, starts, whole>>
  \/ /\ pc = "create" /\ o.verdict = "ioerror" /\ tries /= << >>
     /\ type' = Head(tries) /\ tries' = Tail(tries)
     /\ pass' = 0 /\ seen' = None
     /\ UNCHANGED <<file, stream, data, regions, pc, result, kc, history, whole>>
  \/ /\ pc = "create" /\ (o.verdict = "ioerror" => tries = << >>)
     /\ Destroyed(o.verdict)
     /\ UNCHANGED <<file, next, added, relinked, starts>>

\* init_() opens its file to look at it, but not for the last time.
Passes ==
  IF type = "CRD" /\ pass = 1 THEN file /= None /\ Len(file.recs) = seen.count
  ELSE Recognized(type)
Refusal ==
  IF type \in Archives THEN {Init_(stream, [data EXCEPT !.mem = << >>, !.n = 0], "ioerror")}
  ELSE IF file = None THEN {Init_(Closed, data, "ioerror")}
  ELSE {Init_(p, data, "ioerror") : p \in IF pass = 0 THEN PartWay ELSE {AtTheEnd}}

check ==
  /\ pc \in {"create", "reset"}
  /\ pass + 1 < Opens(type)
  /\ \/ /\ Passes
        /\ pass' = pass + 1
        /\ seen' = IF pass = 0 THEN file ELSE seen
        /\ UNCHANGED <<file, reader, regions, pc, result, kc, tries, history, whole>>
     \/ ~Passes /\ \E o \in Refusal : Thrown(o)

\* init_() opens its file for the last time, and reads what it is to hold.
load ==
  /\ pc \in {"create", "reset"}
  /\ pass + 1 = Opens(type)
  /\ \E o \in init(type, stream, data) :
       \/ /\ o.verdict = "ok"
          /\ pc' = "idle" /\ stream' = o.stream /\ data' = o.data
          /\ tries' = << >> /\ pass' = 0 /\ src' = file /\ failed' = FALSE
          /\ UNCHANGED <<file, type, regions, result, kc, seen, starts, whole>>
       \/ o.verdict /= "ok" /\ Thrown(o)

destroyReader == pc = "idle" /\ Destroyed("none") /\ UNCHANGED <<file, next, added, relinked, starts>>

(***************************************************************************)
(* The regions of interest: a chain, linked by next_                       *)
(***************************************************************************)
\* The smallest set that holds r and what follows its members.
Chain(r) ==
  IF r = None THEN {}
  ELSE {x \in Region : \A S \in SUBSET Region :
          (r \in S /\ \A y \in S : next[y] \in S \union {None}) => x \in S}
Cyclic(r) == r /= None /\ \A x \in Chain(r) : next[x] /= None

\* enqueue() goes to the end of the chain.
enqueue(r) ==
  \E last \in Chain(head) : next[last] = None /\ next' = [next EXCEPT ![last] = r]

\* A wrong addRegionOfInterest(): the else is missing.
addRegionTwice(r) ==
  /\ pc = "idle"
  /\ added' = added \union {r}
  /\ relinked' = (relinked \/ r \in added)
  /\ head' = IF head = None THEN r ELSE head
  /\ \E last \in Region : next[last] = None /\ next' = [next EXCEPT ![last] = r]
  /\ whole' = (whole /\ result = "none")
  /\ UNCHANGED <<file, reader, pc, result, kc, start, history>>

addRegionOfInterest(r) ==
  /\ pc = "idle"
  /\ added' = added \union {r}
  /\ relinked' = (relinked \/ r \in added)
  /\ CASE head = None -> head' = r /\ UNCHANGED <<next, pc>>
       [] head /= None /\ Cyclic(head) ->       \* it never comes to an end
            pc' = "overflow" /\ UNCHANGED <<head, next>>
       [] OTHER -> enqueue(r) /\ UNCHANGED <<head, pc>>
  /\ whole' = (whole /\ result = "none")
  /\ UNCHANGED <<file, reader, result, kc, start, history>>

Contained(i) == \E r \in Chain(head) : i \in Covers[r]

(***************************************************************************)
(* readObservation_(): the observation, or Masked, a cell that is skipped, *)
(* or what the call returns or throws in their place.                      *)
(***************************************************************************)
Read(s, d, out) == [stream |-> s, data |-> d, out |-> out]

\* A line that is not a point, or not of a kind the reader knows.
Unreadable == {Bad, Odd}
Line == Head(stream.rest)
NoLine == stream.rest = << >>
\* getline() meets the end of the file at a last line without a newline.
AfterLine == [stream EXCEPT !.rest = Tail(@), !.good = stream.eol \/ Tail(stream.rest) /= << >>]
AtEof == [stream EXCEPT !.good = FALSE]
Counting(by) == [data EXCEPT !.idx = @ + by]

\* A line that is not a point ends a CRD file as the end of the file does.
readLines ==
  IF ~stream.open THEN Read(stream, data, "error")
  ELSE IF ~stream.good \/ NoLine THEN Read(AtEof, data, "end")
  ELSE IF Line \notin Unreadable THEN Read(AfterLine, data, Line)
  ELSE Read(AfterLine, data, IF type = "CRD" THEN "end" ELSE "error")

\* A wrong readObservation_() of OFF: the end of the file is not an error.
readOffLenient ==
  IF ~stream.open THEN Read(stream, data, "error")
  ELSE IF ~stream.good \/ data.idx = data.n \/ NoLine THEN Read(AtEof, data, "end")
  ELSE IF Line \in Unreadable THEN Read(AfterLine, data, "ioerror")
  ELSE Read(AfterLine, Counting(1), Line)

\* OffReader counts the points it still expects; here idx goes up to n.
readOff ==
  IF ~stream.open THEN Read(stream, data, "error")
  ELSE IF ~stream.good \/ data.idx = data.n THEN Read(stream, data, "end")
  ELSE IF NoLine THEN Read(AtEof, data, "ioerror")
  ELSE IF Line \in Unreadable THEN Read(AfterLine, data, "ioerror")
  ELSE Read(AfterLine, Counting(1), Line)

\* A wrong readObservation_() of PLY: it reads what follows the points.
readPlyPastEnd ==
  IF ~stream.open THEN Read(stream, data, "error")
  ELSE IF NoLine THEN Read(AtEof, data, "end")
  ELSE Read(AfterLine, Counting(1), IF Line \in Unreadable THEN "error" ELSE Line)

\* index_ and idx_ advance before the record is known to be there.
readPly ==
  IF ~stream.open THEN Read(stream, data, "error")
  ELSE IF data.idx = data.n THEN Read(stream, data, "end")
  ELSE IF NoLine THEN Read(AtEof, Counting(1), "error")
  ELSE Read(AfterLine, Counting(1), IF Line \in Unreadable THEN "error" ELSE Line)

\* A stream that has met a word that is not a number reads no other.
readVtk ==
  IF data.idx < 0 THEN Read(stream, data, "error")
  ELSE IF data.idx >= data.n THEN Read(stream, data, "end")
  ELSE IF ~stream.good \/ NoLine \/ Line \in Unreadable THEN Read(AtEof, Counting(1), "error")
  ELSE Read([stream EXCEPT !.rest = Tail(@)], Counting(1), Line)

Inited ==
  CASE type \in Grids    -> data.n > 0
    [] type \in Archives -> data.idx >= 0
    [] type = "NUKLEI"   -> stream.open

\* No kernel is made for an orientation that is of no known domain, and then
\* its weight is set.
Parsed(r) == CASE r = Bad -> "error" [] r = Odd -> "undefined" [] OTHER -> r

\* A wrong loop: continue comes before the index is advanced.
readIndexedInPlace ==
  IF ~Inited THEN Read(stream, data, "error")
  ELSE IF data.idx >= data.n THEN Read(stream, data, "end")
  ELSE IF data.idx >= Len(data.mem) THEN Read(stream, Counting(1), "undefined")
  ELSE LET r == data.mem[data.idx + 1] IN
       Read(stream, Counting(IF r = Masked THEN 0 ELSE 1), Parsed(r))

\* Beyond the vectors, or through e_ into a document that is gone.
readIndexed ==
  IF ~Inited THEN Read(stream, data, "error")
  ELSE IF data.idx >= data.n THEN Read(stream, data, "end")
  ELSE IF data.idx >= Len(data.mem) THEN Read(stream, Counting(1), "undefined")
  ELSE Read(stream, Counting(1), Parsed(data.mem[data.idx + 1]))

readObservation_ ==
  CASE type \in {"CRD", "TXT"} -> readLines
    [] type = "OFF"           -> readOff
    [] type = "PLY"           -> readPly
    [] type = "BUILTINVTK"    -> readVtk
    [] type \in Indexed       -> readIndexed

(***************************************************************************)
(* readObservation() and readObservations()                                *)
(***************************************************************************)
\* The client calls readObservation(), and readObservations() below.
readObservation ==
  /\ pc = "idle"
  /\ pc' = "one" /\ result' = "reading" /\ whole' = FALSE
  /\ UNCHANGED <<file, reader, regions, kc, start, history>>

readObservations ==
  /\ pc = "idle"
  /\ pc' = "all" /\ result' = "reading" /\ kc' = << >>
  /\ whole' = (whole /\ result = "none")
  /\ UNCHANGED <<file, reader, regions, start, history>>

\* KernelCollection::add() throws when the kernel has another type.
Deliver(i) ==
  IF pc = "one" THEN result' = i /\ pc' = "idle" /\ UNCHANGED kc
  ELSE IF kc /= << >> /\ KindOf[i] /= KindOf[kc[1]]
    THEN result' = "mismatch" /\ pc' = "idle" /\ UNCHANGED kc
    ELSE result' = i /\ kc' = Append(kc, i) /\ UNCHANGED pc

\* A wrong loop of readObservation(): it returns at an observation outside.
FilterStops(i) ==
  IF head = None \/ Contained(i) THEN Deliver(i)
  ELSE pc' = "idle" /\ result' = "end" /\ UNCHANGED kc

\* An observation outside the regions is passed over; a chain that is a cycle
\* is followed for ever when no region of it contains the observation.
Filter(i) ==
  IF head = None \/ Contained(i) THEN Deliver(i)
  ELSE IF Cyclic(head) THEN pc' = "overflow" /\ UNCHANGED <<result, kc>>
  ELSE UNCHANGED <<pc, result, kc>>

\* One round of the loop of readObservation().
Round ==
  /\ pc \in {"one", "all"}
  /\ LET o == readObservation_ IN
       /\ stream' = o.stream /\ data' = o.data
       /\ CASE o.out \in Item -> Filter(o.out)
            [] o.out = Masked -> UNCHANGED <<pc, result, kc>>
            [] OTHER -> pc' = "idle" /\ result' = o.out /\ UNCHANGED kc
  /\ UNCHANGED <<file, type, regions, start, history, whole>>

(***************************************************************************)
(* The file                                                                *)
(***************************************************************************)
\* A file of a type that the reader does not try is as good as one of no type,
\* and no file matters when there is no start left.  Bound: when init_() has
\* looked at a file, it finds one of the same type or none the next time.
Replace ==
  /\ \/ pc \in {"none", "idle"} /\ starts < MaxStarts
     \/ pc \in {"create", "reset"}
  /\ file' \in File \union {None}
  /\ type /= None /\ file' /= None => file'.types \subseteq {type} \union RangeOf(tries)
  /\ pass > 0 /\ file' /= None => type \in file'.types
  /\ UNCHANGED <<reader, regions, pc, result, kc, start, history, whole>>

NotImplemented == {"OSUTXT", "RIF", "BUILTINVTK"}

\* The observations of CRD, OFF and PLY take kernels of R3 only, and throw
\* before the file is opened; PCDWriter looks at the type of the collection.
Refused(t, b) ==
  \/ t \in NotImplemented
  \/ t \in {"CRD", "OFF", "PLY"} /\ \E i \in RangeOf(b) : KindOf[i] /= "r3"
  \/ t = "PCD" /\ (b = << >> \/ KindOf[b[1]] \notin {"r3", "r3xs2p"})

\* TxtWriter has opened the file when it meets a kernel it does not write.
BreaksOff(t, b) == t = "TXT" /\ \E i \in RangeOf(b) : KindOf[i] = "r3xs2"
Emptied == [types |-> {"TXT"}, count |-> 0, recs |-> << >>, eol |-> TRUE, of |-> None]

\* A wrong writeBuffer(): the header counts its own line.
WrittenOneMore(t, b) ==
  [types |-> {t}, count |-> Len(b) + 1, recs |-> b, eol |-> TRUE, of |-> b]

\* Only two formats keep the weights and the bandwidths of the kernels.
Kept(t, b) == IF t \in Complete THEN b ELSE [k \in DOMAIN b |-> Bare[b[k]]]
Written(t, b) ==
  [types |-> {t}, count |-> Len(b), recs |-> Kept(t, b), eol |-> TRUE, of |-> b]

\* writeObservations(s, kc, t) creates a writer, gives it the kernels and writes
\* the buffer.  Nobody reads the file meanwhile.
writeObservations(t, b) ==
  /\ pc = "none" /\ starts < MaxStarts
  /\ IF Refused(t, b) THEN result' = "error" /\ UNCHANGED file
     ELSE IF BreaksOff(t, b) THEN result' = "error" /\ file' = Emptied
     ELSE result' = "none" /\ file' = Written(t, b)
  /\ UNCHANGED <<reader, regions, pc, kc, start, history, whole>>

ClientNext ==
  \/ \E t \in Type : createReader(t) \/ \E b \in Batch : writeObservations(t, b)
  \/ createReaderOfAnyType \/ reset \/ destroyReader
  \/ \E r \in Region : addRegionOfInterest(r)
  \/ readObservation \/ readObservations

Starting == check \/ load

Next == ClientNext \/ Starting \/ Round \/ Replace

\* A call that has begun goes on.
Fairness == WF_vars(Round) /\ WF_vars(Starting)

Spec == Init /\ [][Next]_vars /\ Fairness

(***************************************************************************)
(* Properties                                                              *)
(***************************************************************************)
\* PickedOf(S, s)[k]: the members of S among the last k elements of s.
PickedOf(S, s) ==
  LET last[k \in 0 .. Len(s)] ==
        IF k = 0 THEN << >>
        ELSE IF s[Len(s) - k + 1] \in S THEN <<s[Len(s) - k + 1]>> \o last[k - 1]
        ELSE last[k - 1]
  IN  last
Picked(S, s) == PickedOf(S, s)[Len(s)]
ItemsOf(s) == Picked(Item, s)
Take(s, n) == SubSeq(s, 1, IF n < Len(s) THEN n ELSE Len(s))

Wanted == IF head = None THEN Item ELSE {i \in Item : Contained(i)}

\* The records a file says it has: others may follow them.
Declared == IF type \in Counted THEN Take(src.recs, src.count) ELSE src.recs

(***************************************************************************)
(* When readObservations() of a reader that has just started reports the   *)
(* end, the file has as many records as it declares, each of them could be *)
(* read, and the collection holds those that the regions of interest let   *)
(* through, in their order.  Two formats fall short in silence: CRD at a   *)
(* line that is not a point, and OFF in a file that has lost its end, the  *)
(* last newline included.                                                  *)
(***************************************************************************)
EndMeansAll ==
  whole /\ result = "end" /\ ~failed =>
    \/ type = "CRD" /\ Bad \in RangeOf(src.recs)
    \/ type = "OFF" /\ ~src.eol /\ Len(src.recs) < src.count
    \/ /\ type \in Counted => Len(src.recs) >= src.count
       /\ RangeOf(Declared) \intersect {Bad, Odd} = {}
       /\ kc = Picked(Wanted, Declared)

\* The same kernels, weights and bandwidths apart in all formats but two.
AsGiven(s, b) ==
  /\ Len(s) = Len(b)
  /\ \A k \in DOMAIN b : Bare[s[k]] = Bare[b[k]] /\ (type \in Complete => s[k] = b[k])

\* A file that writeObservations() wrote is accepted, and readObservations()
\* gives back the observations it was given: all of them, in their order, with
\* their types.  (A PLYReader cannot be reset.)
WrittenIsReadBack ==
  pc = "idle" /\ src /= None /\ src.of /= None /\ type \in src.types =>
    /\ type /= "PLY" => ~failed
    /\ whole /\ ~failed /\ head = None /\ result /= "none" =>
         result = "end" /\ AsGiven(kc, src.of)

(***************************************************************************)
(* After a reset() that throws, the readers that read as they go and those *)
(* of archives give nothing that the file does not hold any more.  PLY,    *)
(* the grids and NUKLEI may go on with what they hold of the old file.     *)
(***************************************************************************)
NothingStale ==
  result \in Item /\ type \in (Streams \ {"PLY"}) \union Archives =>
    src /= None /\ result \in RangeOf(src.recs)

\* What is read lies within the vectors and the document of the reader, with
\* two exceptions: a reader of a grid or of NUKLEI whose reset() has thrown, and
\* a NUKLEI file with an orientation of a domain that is not known.
DefinedOnceStarted ==
  result = "undefined" =>
    \/ failed /\ type \in Grids \union {"NUKLEI"}
    \/ ~failed /\ type = "NUKLEI" /\ Odd \in RangeOf(src.recs)

\* Kernels of several types in one file make readObservations() throw midway.
\* init_() lets none through but those of NUKLEI, which does not look, and of
\* TXT, which takes a kernel of R3XS2P (6 tokens) for one of SE3 (7), and does
\* not look again at a file put in place after it has looked.
MixedOnlyIfUnseen ==
  result = "mismatch" /\ ~failed =>
    \/ type = "NUKLEI"
    \/ type = "TXT" /\ seen /= src
    \/ type = "TXT" /\ {KindOf[i] : i \in RangeOf(src.recs) \intersect Item}
                        = {"r3xs2p", "se3"}

\* contains() and enqueue() come to an end while no region is added to a reader
\* a second time, be it the same reader or a later one.
OverflowOnlyIfRelinked == pc = "overflow" => relinked

\* A call that creates or resets a reader or reads with it ends.
Running == {"create", "reset", "one", "all"}
Ends == pc \in Running ~> pc \notin Running

(***************************************************************************)
(* A reader implements ReaderContract, CRD as long as every line of the    *)
(* file is a point, NUKLEI as long as every orientation is of a domain     *)
(* that it knows.                                                          *)
(***************************************************************************)
\* What file f holds.
Contents(f) ==
  IF f = None THEN << >>
  ELSE IF "OFF" \in f.types THEN Take(ItemsOf(f.recs), f.count)
  ELSE IF f.types \intersect Counted /= {} THEN ItemsOf(Take(f.recs, f.count))
  ELSE ItemsOf(f.recs)

\* What a reader with stream s and data d has still to deliver.
Left(s, d) ==
  CASE type \in {"CRD", "TXT"} -> ItemsOf(s.rest)
    [] type = "OFF" -> Take(ItemsOf(s.rest), d.n - d.idx)
    [] type = "PLY" -> ItemsOf(Take(s.rest, d.n - d.idx))
    [] type = "BUILTINVTK" ->
         IF s.good THEN ItemsOf(Take(s.rest, d.n - d.idx)) ELSE << >>
    [] type \in Indexed -> ItemsOf(SubSeq(d.mem, d.idx + 1, Len(d.mem)))

Promised ==
  /\ ~failed /\ pc /= "overflow"
  /\ type = "CRD" => src = None \/ Bad \notin RangeOf(src.recs)
  /\ type = "NUKLEI" => Odd \notin RangeOf(src.recs)

Todo == IF Promised THEN Left(stream, data) ELSE << >>
Said == IF Promised THEN result ELSE "none"

Contract == INSTANCE ReaderContract WITH
  contents <- Contents(file), todo <- Todo, wanted <- Wanted, said <- Said, promised <- Promised

\* Whatever the format, a reader delivers the wanted observations of its file
\* in their order, once each, and ends when there is none left.
ImplementsContract == Contract!Spec
=============================================================================
