---------------------- MODULE ProgressIndicatorProofs ----------------------
(***************************************************************************)
(* What the indicator shows and keeps, for every number of threads, calls, *)
(* lines of the log and uses, every scale and both kinds of terminal.      *)
(***************************************************************************)
EXTENDS ProgressIndicator, FiniteSetTheorems, SequenceTheorems, TLAPS

USE CallsAssumption, SpanAssumption, BackspaceAssumption, BoundsAssumption, ThreadAssumption

(***************************************************************************)
(* Counting                                                                *)
(***************************************************************************)
LEMMA Quotient ==
  ASSUME NEW a \in Nat, NEW b \in Nat \ {0}
  PROVE  a \div b \in Nat /\ b * (a \div b) <= a /\ a < b * (a \div b) + b
OBVIOUS

LEMMA QuotientIs ==
  ASSUME NEW a \in Nat, NEW b \in Nat \ {0}, NEW q \in Nat, b * q <= a, a < b * q + b
  PROVE  a \div b = q
OBVIOUS

LEMMA QuotientMonotone ==
  ASSUME NEW a \in Nat, NEW c \in Nat, NEW b \in Nat \ {0}, a <= c
  PROVE  a \div b <= c \div b
<1> DEFINE p == a \div b
           q == c \div b
<1>1. p \in Nat /\ q \in Nat /\ b * p <= a /\ c < b * q + b
  BY Quotient
<1> HIDE DEF p, q
<1>2. b * p < b * q + b
  BY <1>1
<1>3. p < q + 1
  <2> SUFFICES ASSUME p >= q + 1 PROVE FALSE
    BY <1>1
  <2>1. b * p >= b * (q + 1)
    BY <1>1
  <2>2. b * (q + 1) = b * q + b
    BY <1>1
  <2> QED BY <1>1, <1>2, <2>1, <2>2
<1> QED BY <1>1, <1>3 DEF p, q

LEMMA SpanFacts ==
  /\ Cardinality(Thread) \in Nat /\ spanLength_ \in Nat
  /\ spanEnd_ \in Int /\ spanEnd_ = spanStart_ + spanLength_ /\ spanStart_ \in Int
<1>1. Cardinality(Thread) \in Nat
  BY FS_CardinalityType
<1>2. \A c, d \in Nat : c * d \in Nat
  OBVIOUS
<1>3. spanLength_ \in Nat
  BY <1>1, <1>2 DEF spanLength_
<1> QED BY <1>1, <1>3 DEF spanEnd_

LEMMA CountType ==
  ASSUME spanLength_ /= 0, NEW v \in Int
  PROVE  count(v) \in Nat
<1> SUFFICES ASSUME ~(v < spanStart_) PROVE count(v) \in Nat
  BY DEF count
<1>1. v - spanStart_ \in Nat /\ scale_ \in Nat
  BY SpanFacts
<1>2. (v - spanStart_) * scale_ \in Nat
  BY <1>1
<1>3. ((v - spanStart_) * scale_) \div spanLength_ \in Nat
  BY <1>2, SpanFacts, Quotient
<1> QED BY <1>3 DEF count

\* The last count is reached at the end of the span, and only there.
LEMMA CountFacts ==
  ASSUME spanLength_ /= 0, NEW v \in spanStart_ .. spanEnd_
  PROVE  /\ count(v) = ((v - spanStart_) * scale_) \div spanLength_
         /\ count(v) \in 0 .. scale_
         /\ count(v) = scale_ <=> v = spanEnd_
         /\ \A u \in spanStart_ .. v : count(u) <= count(v)
         /\ count(spanStart_) = 0
<1> DEFINE x == v - spanStart_
           a == x * scale_
           q == a \div spanLength_
<1>1. /\ x \in Nat /\ x <= spanLength_ /\ (x = spanLength_ <=> v = spanEnd_)
      /\ spanLength_ \in Nat \ {0} /\ ~(v < spanStart_)
  BY SpanFacts
<1>2. count(v) = q
  BY <1>1 DEF count
<1>3. a \in Nat /\ q \in Nat /\ spanLength_ * q <= a /\ a < spanLength_ * q + spanLength_
  <2> HIDE DEF x
  <2>1. a \in Nat
    BY <1>1
  <2> HIDE DEF a
  <2> QED BY <1>1, <2>1, Quotient
<1>4. q <= scale_ /\ (q = scale_ <=> x = spanLength_)
  <2>1. CASE x = spanLength_
    <3>1. a = spanLength_ * scale_ /\ a < spanLength_ * scale_ + spanLength_
      BY <1>1, <2>1
    <3> HIDE DEF a, x
    <3>2. q = scale_
      BY <1>1, <1>3, <3>1, QuotientIs
    <3> QED BY <2>1, <3>2
  <2>2. CASE x /= spanLength_
    <3> HIDE DEF x, q
    <3>1. a <= (spanLength_ - 1) * scale_
      BY <1>1, <2>2
    <3>2. (spanLength_ - 1) * scale_ = spanLength_ * scale_ - scale_
      BY <1>1
    <3> HIDE DEF a
    <3>3. spanLength_ * q < spanLength_ * scale_
      BY <1>1, <1>3, <3>1, <3>2
    <3>4. q < scale_
      <4> SUFFICES ASSUME q >= scale_ PROVE FALSE
        BY <1>3
      <4>1. spanLength_ * q >= spanLength_ * scale_
        BY <1>1, <1>3
      <4> QED BY <1>1, <1>3, <3>3, <4>1
    <3> QED BY <1>3, <2>2, <3>4
  <2> QED BY <2>1, <2>2
<1>5. ASSUME NEW u \in spanStart_ .. v PROVE count(u) <= count(v)
  <2> DEFINE y == u - spanStart_
  <2>1. y \in Nat /\ y <= x /\ ~(u < spanStart_)
    BY <1>1, SpanFacts
  <2>2. y * scale_ \in Nat /\ y * scale_ <= a
    <3> HIDE DEF x, y
    <3> QED BY <1>1, <2>1
  <2>3. (y * scale_) \div spanLength_ <= q
    <3> HIDE DEF a, y
    <3> QED BY <1>1, <1>3, <2>2, QuotientMonotone
  <2>4. count(u) = (y * scale_) \div spanLength_
    BY <2>1 DEF count
  <2> QED BY <1>2, <2>3, <2>4
<1>6. count(spanStart_) = 0
  <2>1. ~(spanStart_ < spanStart_) /\ (spanStart_ - spanStart_) * scale_ = 0
    BY SpanFacts
  <2>2. 0 \div spanLength_ = 0
    BY <1>1, QuotientIs
  <2> QED BY <2>1, <2>2 DEF count
<1> HIDE DEF q, x
<1>7. count(v) \in 0 .. scale_ /\ (count(v) = scale_ <=> v = spanEnd_)
  BY <1>1, <1>2, <1>3, <1>4
<1> QED BY <1>2, <1>5, <1>6, <1>7 DEF q, x

LEMMA PercentFacts ==
  /\ \A c \in Nat : Percent(c) \in Nat
  /\ \A c \in 0 .. scale_ : Percent(c) \in 0 .. 100
  /\ Percent(0) = 0
<1>1. ASSUME NEW c \in Nat PROVE Percent(c) \in Nat
  <2>1. c * 100 \in Nat
    OBVIOUS
  <2> QED BY <2>1, Quotient DEF Percent
<1>2. ASSUME NEW c \in 0 .. scale_ PROVE Percent(c) \in 0 .. 100
  <2>1. c * 100 \in Nat /\ c * 100 <= scale_ * 100 /\ scale_ * 100 \in Nat
    OBVIOUS
  <2>2. (c * 100) \div scale_ <= (scale_ * 100) \div scale_
    BY <2>1, QuotientMonotone
  <2>3. (scale_ * 100) \div scale_ = 100
    BY <2>1, QuotientIs
  <2> QED BY <1>1, <2>2, <2>3 DEF Percent
<1>3. Percent(0) = 0
  BY QuotientIs DEF Percent
<1> QED BY <1>1, <1>2, <1>3

(***************************************************************************)
(* The screen                                                              *)
(***************************************************************************)
LEMMA ScreenAppend ==
  ASSUME NEW S, NEW s \in Seq(S), NEW l \in S
  PROVE  /\ Append(s, l) \in Seq(S) /\ Append(s, l) /= << >>
         /\ Append(s, l)[Len(Append(s, l))] = l
         /\ Len(Append(s, l)) = Len(s) + 1
         /\ \A k \in 1 .. Len(s) : Append(s, l)[k] = s[k]
OBVIOUS

LEMMA LogLinesFinite ==
  ASSUME NEW S, NEW s \in Seq(S)
  PROVE  IsFiniteSet(LogLines(s)) /\ Cardinality(LogLines(s)) \in Nat
<1>1. IsFiniteSet(1 .. Len(s))
  BY FS_Interval
<1>2. LogLines(s) \subseteq 1 .. Len(s)
  BY DEF LogLines
<1> QED BY <1>1, <1>2, FS_Subset, FS_CardinalityType

LEMMA LogLinesAppend ==
  ASSUME NEW S, NEW s \in Seq(S), NEW l \in S
  PROVE  Cardinality(LogLines(Append(s, l))) =
           Cardinality(LogLines(s)) + (IF l = LogLine THEN 1 ELSE 0)
<1>1. Cardinality(LogLines(s)) \in Nat /\ IsFiniteSet(LogLines(s))
  BY LogLinesFinite
<1>2. CASE l = LogLine
  <2>1. LogLines(Append(s, l)) = LogLines(s) \union {Len(s) + 1}
    BY <1>2, ScreenAppend DEF LogLines
  <2>2. Len(s) + 1 \notin LogLines(s)
    BY DEF LogLines
  <2> QED BY <1>1, <1>2, <2>1, <2>2, FS_AddElement
<1>3. CASE l /= LogLine
  <2>1. LogLines(Append(s, l)) = LogLines(s)
    BY <1>3, ScreenAppend DEF LogLines
  <2> QED BY <1>1, <1>3, <2>1
<1> QED BY <1>2, <1>3

LEMMA LogLinesFront ==
  ASSUME NEW S, NEW s \in Seq(S), s /= << >>, s[Len(s)] /= LogLine
  PROVE  Front(s) \in Seq(S) /\ LogLines(Front(s)) = LogLines(s)
<1>1. Len(s) \in Nat \ {0}
  BY EmptySeq
<1>2. Front(s) = SubSeq(s, 1, Len(s) - 1)
  BY DEF Front
<1>3. /\ Front(s) \in Seq(S) /\ Len(Front(s)) = Len(s) - 1
      /\ \A k \in 1 .. Len(s) - 1 : Front(s)[k] = s[k]
  <2> DEFINE n == Len(s) - 1
  <2>1. n \in Nat /\ n <= Len(s)
    BY <1>1
  <2> HIDE DEF n
  <2>2. \A k \in 1 .. n : s[k] \in S
    BY <2>1
  <2>3. SubSeq(s, 1, n) = [k \in 1 .. n |-> s[k]]
    BY <2>1
  <2>4. SubSeq(s, 1, n) \in Seq(S) /\ Len(SubSeq(s, 1, n)) = n
    BY <2>1, <2>2, <2>3
  <2> QED BY <1>2, <2>3, <2>4 DEF n
<1>4. DOMAIN Front(s) = 1 .. Len(s) - 1 /\ DOMAIN s = 1 .. Len(s)
  BY <1>3
<1>5. \A k \in 1 .. Len(s) : k \in 1 .. Len(s) - 1 \/ k = Len(s)
  BY <1>1
<1>6. 1 .. Len(s) - 1 \subseteq 1 .. Len(s)
  BY <1>1
<1> QED BY <1>3, <1>4, <1>5, <1>6 DEF LogLines

LEMMA ShowsAppend ==
  ASSUME NEW S, NEW s \in Seq(S), NEW l \in S
  PROVE  /\ Shows(Append(s, l), l)
         /\ l = LogLine => \A p : Shows(s, p) => Shows(Append(s, l), p)
<1>1. Shows(Append(s, l), l)
  <2>1. /\ Len(s) + 1 \in DOMAIN Append(s, l) /\ Append(s, l)[Len(s) + 1] = l
        /\ \A j \in (Len(s) + 1) + 1 .. Len(Append(s, l)) : Append(s, l)[j] = LogLine
    OBVIOUS
  <2> QED BY <2>1 DEF Shows
<1>2. ASSUME l = LogLine, NEW p, Shows(s, p) PROVE Shows(Append(s, l), p)
  <2>1. PICK k \in DOMAIN s : s[k] = p /\ \A j \in k + 1 .. Len(s) : s[j] = LogLine
    BY <1>2 DEF Shows
  <2>2. k \in DOMAIN Append(s, l) /\ Append(s, l)[k] = p
    BY <2>1
  <2>3. \A j \in k + 1 .. Len(Append(s, l)) : Append(s, l)[j] = LogLine
    <3> TAKE j \in k + 1 .. Len(Append(s, l))
    <3>1. j \in k + 1 .. Len(s) \/ j = Len(s) + 1
      BY <2>1
    <3> QED BY <1>2, <2>1, <3>1
  <2> QED BY <2>2, <2>3 DEF Shows
<1> QED BY <1>1, <1>2

LEMMA DisplayedFacts ==
  ASSUME NEW S, NEW lines \in Seq(S), NEW line \in S, line /= LogLine, NEW over \in BOOLEAN,
         over => lines /= << >> /\ lines[Len(lines)] /= LogLine
  PROVE  /\ Displayed(lines, line, over) \in Seq(S)
         /\ Displayed(lines, line, over) /= << >>
         /\ Displayed(lines, line, over)[Len(Displayed(lines, line, over))] = line
         /\ Cardinality(LogLines(Displayed(lines, line, over))) = Cardinality(LogLines(lines))
         /\ Shows(Displayed(lines, line, over), line)
<1>1. PICK s \in Seq(S) : /\ Displayed(lines, line, over) = Append(s, line)
                          /\ LogLines(s) = LogLines(lines)
  <2>1. CASE backspace_ /\ over
    BY <2>1, LogLinesFront DEF Displayed
  <2>2. CASE ~(backspace_ /\ over)
    BY <2>2 DEF Displayed
  <2> QED BY <2>1, <2>2
<1>2. Cardinality(LogLines(s)) \in Nat
  BY LogLinesFinite
<1>3. Cardinality(LogLines(Append(s, line))) = Cardinality(LogLines(s))
  BY <1>2, LogLinesAppend
<1> QED BY <1>1, <1>3, ScreenAppend, ShowsAppend

(***************************************************************************)
(* The log                                                                 *)
(***************************************************************************)
\* The screen keeps the log: it is a sequence of lines, and the last one is
\* progress when LAST_OUTPUT_LINE_IS_PROGRESS says so.
Screened ==
  /\ screen \in Seq(Int)
  /\ lastLineIsProgress \in BOOLEAN
  /\ lastLineIsProgress => screen /= << >> /\ screen[Len(screen)] /= LogLine
  /\ current_ \in Nat /\ spanPos_ \in Int /\ logged \in Nat
  /\ value \in [Thread -> Int \union {None}]
  /\ LogIsKept

\* What setValue() leaves on the screen, in either case.
LEMMA SetValueCases ==
  ASSUME Screened, NEW v \in Int, setValue(v), state_ /= "finished", spanLength_ /= 0,
         NEW S, screen \in Seq(S), 0 \in S, S \subseteq Int,
         count(v) > current_ => Percent(count(v)) \in S
  PROVE  /\ screen' \in Seq(S) /\ lastLineIsProgress' \in BOOLEAN
         /\ lastLineIsProgress' => screen' /= << >> /\ screen'[Len(screen')] /= LogLine
         /\ Cardinality(LogLines(screen')) = Cardinality(LogLines(screen))
         /\ count(v) > current_ => Shows(screen', Percent(count(v)))
         /\ ~(count(v) > current_) /\ state_ = "ready" => Shows(screen', 0)
         /\ ~(count(v) > current_) /\ state_ /= "ready" => screen' = screen
<1> DEFINE started == IF state_ = "ready" THEN Append(screen, 0) ELSE screen
           over == state_ = "ready" \/ lastLineIsProgress
           advanced == count(v) > current_
           line == Percent(count(v))
<1>1. /\ lastLineIsProgress' = (advanced \/ over)
      /\ screen' = IF advanced THEN Displayed(started, line, over) ELSE started
  BY DEF setValue
<1>2. 0 /= LogLine /\ Cardinality(LogLines(screen)) \in Nat
  BY LogLinesFinite DEF LogLine
<1>3. /\ started \in Seq(S) /\ over \in BOOLEAN
      /\ over => started /= << >> /\ started[Len(started)] /= LogLine
      /\ Cardinality(LogLines(started)) = Cardinality(LogLines(screen))
  <2>1. CASE state_ = "ready"
    BY <1>2, <2>1, ScreenAppend, LogLinesAppend
  <2>2. CASE state_ /= "ready"
    BY <2>2 DEF Screened
  <2> QED BY <2>1, <2>2
<1>4. CASE advanced
  <2>1. line \in S /\ line /= LogLine
    <3>1. count(v) \in Nat
      BY CountType
    <3> QED BY <1>4, <3>1, PercentFacts DEF LogLine
  <2> HIDE DEF started, over, line
  <2>2. /\ screen' = Displayed(started, line, over) /\ lastLineIsProgress' = TRUE
    BY <1>1, <1>4
  <2>3. /\ screen' \in Seq(S) /\ screen' /= << >> /\ screen'[Len(screen')] = line
        /\ Cardinality(LogLines(screen')) = Cardinality(LogLines(started))
        /\ Shows(screen', line)
    BY <1>3, <2>1, <2>2, DisplayedFacts
  <2> QED BY <1>3, <1>4, <2>1, <2>2, <2>3 DEF line
<1>5. CASE ~advanced
  <2>1. state_ = "ready" => Shows(started, 0)
    BY ShowsAppend
  <2> QED BY <1>1, <1>3, <1>5, <2>1
<1> QED BY <1>4, <1>5

LEMMA SetValueScreened ==
  ASSUME Screened, NEW v \in Int, setValue(v), logged' = logged,
         value' \in [Thread -> Int \union {None}]
  PROVE  Screened'
<1>1. CASE state_ = "finished" \/ spanLength_ = 0
  BY <1>1 DEF setValue, Screened, indicator, LogIsKept
<1>2. CASE ~(state_ = "finished" \/ spanLength_ = 0)
  <2>1. count(v) \in Nat /\ Percent(count(v)) \in Int
    BY <1>2, CountType, PercentFacts
  <2>2. /\ screen' \in Seq(Int) /\ lastLineIsProgress' \in BOOLEAN
        /\ lastLineIsProgress' => screen' /= << >> /\ screen'[Len(screen')] /= LogLine
        /\ Cardinality(LogLines(screen')) = Cardinality(LogLines(screen))
    <3>1. screen \in Seq(Int) /\ 0 \in Int /\ Int \subseteq Int
      BY DEF Screened
    <3> QED BY <1>2, <2>1, <3>1, SetValueCases
  <2>3. current_' \in Nat /\ spanPos_' \in Int
    BY <1>2, <2>1 DEF setValue, Screened
  <2> QED BY <2>2, <2>3 DEF Screened, LogIsKept
<1> QED BY <1>1, <1>2

LEMMA InitScreened == Init => Screened
<1> SUFFICES ASSUME Init PROVE Screened
  OBVIOUS
<1>1. screen \in Seq(Int) /\ LogLines(screen) = {}
  <2>1. \A k \in DOMAIN screen : screen[k] /= LogLine
    BY EmptySeq DEF Init, LogLine
  <2> QED BY <2>1, EmptySeq DEF Init, LogLines
<1>2. Cardinality(LogLines(screen)) = logged
  BY <1>1, FS_EmptySet DEF Init
<1>3. lastLineIsProgress => screen /= << >> /\ screen[Len(screen)] /= LogLine
  <2>1. CASE spanLength_ = 0
    BY <2>1 DEF Init
  <2>2. CASE spanLength_ /= 0
    <3>1. screen = <<0>>
      BY <2>2 DEF Init
    <3>2. Len(screen) = 1 /\ screen[1] = 0
      BY <3>1
    <3>3. screen /= << >>
      BY <3>1
    <3> QED BY <3>2, <3>3 DEF LogLine
  <2> QED BY <2>1, <2>2
<1> QED BY <1>1, <1>2, <1>3 DEF Init, Screened, LogIsKept

LEMMA NextScreened == Screened /\ [Next]_vars => Screened'
<1> SUFFICES ASSUME Screened, [Next]_vars PROVE Screened'
  OBVIOUS
<1>1. ASSUME NEW t \in Thread, mtIncLock(t) PROVE Screened'
  BY <1>1 DEF mtIncLock, indicator, Screened, LogIsKept
<1>2. ASSUME NEW t \in Thread, mtIncRead(t) PROVE Screened'
  BY <1>2 DEF mtIncRead, indicator, Screened, LogIsKept
<1>3. ASSUME NEW t \in Thread, mtIncSet(t) PROVE Screened'
  <2>1. value[t] \in Int /\ value' \in [Thread -> Int \union {None}]
    BY <1>3 DEF mtIncSet, Screened
  <2> QED BY <1>3, <2>1, SetValueScreened DEF mtIncSet
<1>4. ASSUME log PROVE Screened'
  <2>1. LogLine \in Int
    BY DEF LogLine
  <2>2. /\ screen' \in Seq(Int)
        /\ Cardinality(LogLines(screen')) = Cardinality(LogLines(screen)) + 1
    BY <1>4, <2>1, ScreenAppend, LogLinesAppend DEF log, Screened
  <2>3. logged \in Nat /\ Cardinality(LogLines(screen)) = logged /\ logged' = logged + 1
    BY <1>4 DEF log, Screened, LogIsKept
  <2>4. Cardinality(LogLines(screen')) = logged' /\ logged' \in Nat
    BY <2>2, <2>3
  <2>5. /\ lastLineIsProgress' = FALSE
        /\ current_' = current_ /\ spanPos_' = spanPos_ /\ value' = value
    BY <1>4 DEF log, indicator
  <2> QED BY <2>2, <2>4, <2>5 DEF Screened, LogIsKept
<1>5. ASSUME forceEnd PROVE Screened'
  BY <1>5, SpanFacts, SetValueScreened DEF forceEnd, Screened
<1>6. ASSUME rewind PROVE Screened'
  BY <1>6 DEF rewind, Screened, LogIsKept
<1>7. ASSUME destroy PROVE Screened'
  <2>1. CASE state_ = "running"
    BY <1>7, <2>1, SpanFacts, SetValueScreened DEF destroy, Screened
  <2>2. CASE state_ /= "running"
    BY <1>7, <2>2 DEF destroy, indicator, Screened, LogIsKept
  <2> QED BY <2>1, <2>2
<1>8. ASSUME UNCHANGED vars PROVE Screened'
  BY <1>8 DEF vars, indicator, Screened, LogIsKept
<1> QED BY <1>1, <1>2, <1>3, <1>4, <1>5, <1>6, <1>7, <1>8 DEF Next, mtInc, Ended

\* Progress erases no line of the log: as many lines of it are on the screen as
\* were logged, whatever the span and the threads.
THEOREM KeepsTheLog == Spec => []LogIsKept
<1>1. Screened => LogIsKept
  BY DEF Screened
<1> QED BY InitScreened, NextScreened, <1>1, PTL DEF Spec

(***************************************************************************)
(* The calls made                                                          *)
(***************************************************************************)
Called == {c \in Thread \X (1 .. Calls) : todo[c[1]] < c[2]}

LEMMA MadeType ==
  /\ IsFiniteSet(Thread \X (1 .. Calls)) /\ Cardinality(Thread \X (1 .. Calls)) = spanLength_
  /\ IsFiniteSet(Called) /\ Made \in Nat /\ Made = Cardinality(Called) /\ Made <= spanLength_
<1>1. IsFiniteSet(1 .. Calls) /\ Cardinality(1 .. Calls) = Calls
  <2>1. IsFiniteSet(1 .. Calls) /\ Cardinality(1 .. Calls) = IF 1 > Calls THEN 0 ELSE Calls - 1 + 1
    BY FS_Interval
  <2> QED BY <2>1
<1>2. /\ IsFiniteSet(Thread \X (1 .. Calls))
      /\ Cardinality(Thread \X (1 .. Calls)) = Cardinality(Thread) * Calls
  BY <1>1, FS_Product
<1>3. Cardinality(Thread) * Calls = spanLength_
  BY SpanFacts DEF spanLength_
<1>4. Made = Cardinality(Called) /\ Called \subseteq Thread \X (1 .. Calls)
  BY DEF Made, Called
<1> QED BY <1>2, <1>3, <1>4, FS_Subset, FS_CardinalityType

LEMMA MadeNone ==
  /\ todo = [t \in Thread |-> Calls] => Made = 0
  /\ todo' = [t \in Thread |-> Calls] => Made' = 0
<1>1. /\ todo = [t \in Thread |-> Calls] =>
           {c \in Thread \X (1 .. Calls) : todo[c[1]] < c[2]} = {}
      /\ todo' = [t \in Thread |-> Calls] =>
           {c \in Thread \X (1 .. Calls) : todo'[c[1]] < c[2]} = {}
  OBVIOUS
<1> QED BY <1>1, FS_EmptySet DEF Made

LEMMA MadeAll ==
  ASSUME \A t \in Thread : todo[t] = 0
  PROVE  Made = spanLength_
<1>1. Called = Thread \X (1 .. Calls)
  BY DEF Called
<1> QED BY <1>1, MadeType

LEMMA MadeNotAll ==
  ASSUME NEW t \in Thread, todo[t] \in 1 .. Calls
  PROVE  Made < spanLength_
<1>1. <<t, todo[t]>> \in Thread \X (1 .. Calls) /\ <<t, todo[t]>> \notin Called
  BY DEF Called
<1>2. Called \subseteq Thread \X (1 .. Calls) /\ Called /= Thread \X (1 .. Calls)
  BY <1>1 DEF Called
<1>3. Cardinality(Called) /= Cardinality(Thread \X (1 .. Calls))
  BY <1>2, MadeType, FS_Subset
<1> QED BY <1>3, MadeType, SpanFacts

LEMMA MadeOne ==
  ASSUME todo \in [Thread -> 0 .. Calls], NEW t \in Thread, todo[t] > 0,
         todo' = [todo EXCEPT ![t] = @ - 1]
  PROVE  Made' = Made + 1
<1> DEFINE call == <<t, todo[t]>>
           Called2 == {c \in Thread \X (1 .. Calls) : todo'[c[1]] < c[2]}
<1>1. todo[t] \in 1 .. Calls /\ todo'[t] = todo[t] - 1
      /\ \A u \in Thread \ {t} : todo'[u] = todo[u]
  OBVIOUS
<1>2. call \in Thread \X (1 .. Calls) /\ call \notin Called
  BY <1>1 DEF Called
<1>3. ASSUME NEW u \in Thread, NEW k \in 1 .. Calls
      PROVE  todo'[u] < k <=> (todo[u] < k \/ <<u, k>> = call)
  <2>1. CASE u = t
    <3>1. todo[t] - 1 < k <=> (todo[t] < k \/ k = todo[t])
      BY <1>1
    <3> QED BY <1>1, <2>1, <3>1
  <2>2. CASE u /= t
    BY <1>1, <2>2
  <2> QED BY <2>1, <2>2
<1> HIDE DEF call
<1>4. Called2 = Called \union {call}
  <2>1. \A c \in Thread \X (1 .. Calls) : c \in Called2 <=> (c \in Called \/ c = call)
    BY <1>3 DEF Called
  <2> QED BY <1>2, <2>1 DEF Called
<1>5. Made' = Cardinality(Called2)
  BY DEF Made
<1> HIDE DEF Called2
<1> QED BY <1>2, <1>4, <1>5, MadeType, FS_AddElement

(***************************************************************************)
(* What is displayed                                                       *)
(***************************************************************************)
\* Between Lock and Set, a thread holds the mutex and the position stays.
Locked ==
  /\ \A t \in Thread : value[t] /= None => mutex_ = t /\ value[t] = spanPos_ + 1
  /\ \A t \in Thread : mutex_ = t => main = "run" /\ todo[t] > 0

Positioned ==
  /\ main = "run" => spanPos_ = spanStart_ + Made
  /\ main /= "run" => spanPos_ = spanEnd_ /\ \A t \in Thread : todo[t] = 0

\* The count is that of the position, and the indicator finishes at the end of
\* the span.
Advanced ==
  IF spanLength_ = 0 THEN state_ = "ready"
  ELSE /\ current_ = count(spanPos_)
       /\ state_ = "ready" => current_ = 0
       /\ state_ = "finished" <=> current_ = scale_
       /\ state_ /= "ready" => Shows(screen, Percent(current_))

IInv == TypeOK /\ Locked /\ Positioned /\ Advanced /\ Screened

\* rewind() goes back to position 0.
RewoundToStart == spanStart_ = 0 \/ MaxRuns = 1

LEMMA SetValueCounts ==
  ASSUME TypeOK, Screened, Advanced, spanLength_ /= 0, state_ /= "finished",
         NEW v \in spanStart_ .. spanEnd_, spanPos_ <= v, setValue(v)
  PROVE  /\ spanPos_' = v /\ current_' \in 0 .. scale_
         /\ state_' \in {"ready", "running", "finished"}
         /\ screen' \in Seq(-1 .. 100) /\ lastLineIsProgress' \in BOOLEAN
         /\ Advanced'
<1>1. v \in Int /\ spanPos_ \in spanStart_ .. v /\ spanPos_ \in spanStart_ .. spanEnd_
  BY SpanFacts DEF TypeOK
<1>2. /\ count(v) \in 0 .. scale_ /\ (count(v) = scale_ <=> v = spanEnd_)
      /\ count(spanPos_) <= count(v)
      /\ count(spanPos_) \in 0 .. scale_
  BY <1>1, CountFacts
<1>3. current_ = count(spanPos_) /\ current_ /= scale_ /\ (state_ = "ready" => current_ = 0)
  BY DEF Advanced
<1>4. /\ spanPos_' = v
      /\ current_' = IF count(v) > current_ THEN count(v) ELSE current_
      /\ state_' = IF count(v) > current_ /\ count(v) = scale_ THEN "finished" ELSE "running"
  BY DEF setValue
<1>5. /\ screen' \in Seq(-1 .. 100) /\ lastLineIsProgress' \in BOOLEAN
      /\ count(v) > current_ => Shows(screen', Percent(count(v)))
      /\ ~(count(v) > current_) /\ state_ = "ready" => Shows(screen', 0)
      /\ ~(count(v) > current_) /\ state_ /= "ready" => screen' = screen
  <2>1. Percent(count(v)) \in -1 .. 100
    BY <1>2, PercentFacts
  <2>2. screen \in Seq(-1 .. 100) /\ 0 \in -1 .. 100 /\ -1 .. 100 \subseteq Int
    BY DEF TypeOK
  <2> QED BY <1>1, <2>1, <2>2, SetValueCases
<1>6. current_' = count(v)
  BY <1>2, <1>3, <1>4
<1>7. state_' /= "ready" /\ (state_' = "finished" <=> current_' = scale_)
  BY <1>2, <1>3, <1>4, <1>6
<1>8. Shows(screen', Percent(current_'))
  <2>1. CASE count(v) > current_
    BY <1>5, <1>6, <2>1
  <2>2. CASE ~(count(v) > current_)
    <3>1. current_' = current_
      BY <1>4, <2>2
    <3> QED BY <1>3, <1>5, <2>2, <3>1, PercentFacts DEF Advanced
  <2> QED BY <2>1, <2>2
<1>9. Advanced'
  BY <1>4, <1>6, <1>7, <1>8 DEF Advanced
<1> QED BY <1>2, <1>4, <1>5, <1>6, <1>9

LEMMA AtTheEnd ==
  ASSUME TypeOK, Advanced, spanLength_ /= 0
  PROVE  state_ = "finished" <=> spanPos_ = spanEnd_
BY CountFacts DEF TypeOK, Advanced

LEMMA InitInv == Init => IInv
<1> SUFFICES ASSUME Init PROVE IInv
  OBVIOUS
<1>1. Made = 0
  BY MadeNone DEF Init
<1>2. TypeOK
  <2>1. spanStart_ \in spanStart_ .. spanEnd_ /\ 0 \in 0 .. scale_ /\ 0 \in 0 .. MaxLogs
        /\ 1 \in 1 .. MaxRuns
    BY SpanFacts
  <2>2. << >> \in Seq(-1 .. 100) /\ <<0>> \in Seq(-1 .. 100)
    OBVIOUS
  <2>3. screen \in Seq(-1 .. 100)
    BY <2>2 DEF Init
  <2>4. todo \in [Thread -> 0 .. Calls]
    BY DEF Init
  <2> QED BY <2>1, <2>3, <2>4 DEF Init, TypeOK
<1>3. Locked
  BY DEF Init, Locked
<1>4. Positioned
  BY <1>1, SpanFacts DEF Init, Positioned
<1>5. Advanced
  <2>1. CASE spanLength_ = 0
    BY <2>1 DEF Init, Advanced
  <2>2. CASE spanLength_ /= 0
    <3>1. spanStart_ \in spanStart_ .. spanEnd_
      BY SpanFacts
    <3>2. count(spanStart_) = 0
      BY <2>2, <3>1, CountFacts
    <3>3. Shows(screen, 0)
      <4>1. screen = <<0>>
        BY <2>2 DEF Init
      <4>2. 1 \in DOMAIN screen /\ screen[1] = 0 /\ \A j \in 1 + 1 .. Len(screen) : FALSE
        BY <4>1
      <4> QED BY <4>2 DEF Shows
    <3> QED BY <2>2, <3>2, <3>3, PercentFacts DEF Init, Advanced
  <2> QED BY <2>1, <2>2
<1> QED BY <1>2, <1>3, <1>4, <1>5, InitScreened DEF IInv

LEMMA SetInv == ASSUME IInv, NEW t \in Thread, mtIncSet(t) PROVE IInv'
<1>1. TypeOK /\ Locked /\ Positioned /\ Advanced /\ Screened
  BY DEF IInv
<1>2. /\ value[t] = spanPos_ + 1 /\ mutex_ = t /\ main = "run" /\ todo[t] \in 1 .. Calls
      /\ spanPos_ = spanStart_ + Made
  BY <1>1 DEF mtIncSet, Locked, Positioned, TypeOK
<1>3. Made < spanLength_ /\ Made \in Nat /\ Made' = Made + 1
  <2>1. todo \in [Thread -> 0 .. Calls] /\ todo' = [todo EXCEPT ![t] = @ - 1] /\ todo[t] > 0
    BY <1>1, <1>2 DEF mtIncSet, TypeOK
  <2>2. Made' = Made + 1
    BY <2>1, MadeOne
  <2>3. Made < spanLength_
    BY <1>2, MadeNotAll
  <2> QED BY <2>2, <2>3, MadeType
<1>4. spanLength_ /= 0 /\ value[t] \in spanStart_ .. spanEnd_ /\ spanPos_ <= value[t]
      /\ spanPos_ /= spanEnd_
  BY <1>2, <1>3, SpanFacts
<1>5. state_ /= "finished"
  BY <1>1, <1>4, AtTheEnd
<1>6. /\ spanPos_' = value[t] /\ current_' \in 0 .. scale_
      /\ state_' \in {"ready", "running", "finished"}
      /\ screen' \in Seq(-1 .. 100) /\ lastLineIsProgress' \in BOOLEAN
      /\ Advanced'
  BY <1>1, <1>4, <1>5, SetValueCounts DEF mtIncSet
<1>7. /\ todo' \in [Thread -> 0 .. Calls]
      /\ value' \in [Thread -> (spanStart_ .. spanEnd_) \union {None}]
      /\ value'[t] = None /\ \A u \in Thread \ {t} : value'[u] = value[u]
  BY <1>1, <1>2 DEF mtIncSet, TypeOK
<1>8. mutex_' = None /\ main' = main /\ logged' = logged /\ runs' = runs
  BY DEF mtIncSet
<1>9. TypeOK'
  BY <1>1, <1>4, <1>6, <1>7, <1>8 DEF TypeOK
<1>10. Locked'
  BY <1>1, <1>2, <1>7, <1>8 DEF Locked
<1>11. Positioned'
  BY <1>2, <1>3, <1>6, <1>8, SpanFacts DEF Positioned
<1>12. Screened'
  BY <1>1, NextScreened DEF Next, mtInc
<1> QED BY <1>6, <1>9, <1>10, <1>11, <1>12 DEF IInv

LEMMA LogInv == ASSUME IInv, log PROVE IInv'
<1>1. screen \in Seq(-1 .. 100) /\ LogLine \in -1 .. 100
  BY DEF IInv, TypeOK, LogLine
<1>2. screen' \in Seq(-1 .. 100) /\ \A p : Shows(screen, p) => Shows(screen', p)
  BY <1>1, ScreenAppend, ShowsAppend DEF log
<1>3. logged' \in 0 .. MaxLogs
  BY DEF IInv, TypeOK, log
<1>4. /\ state_' = state_ /\ spanPos_' = spanPos_ /\ current_' = current_
      /\ lastLineIsProgress' \in BOOLEAN
      /\ mutex_' = mutex_ /\ todo' = todo /\ value' = value /\ main' = main /\ runs' = runs
  BY DEF log, indicator
<1>5. Made' = Made
  BY <1>4 DEF Made
<1>6. TypeOK'
  BY <1>2, <1>3, <1>4 DEF IInv, TypeOK
<1>7. Locked' /\ Positioned'
  BY <1>4, <1>5 DEF IInv, Locked, Positioned
<1>8. Advanced'
  BY <1>2, <1>4 DEF IInv, Advanced
<1> QED BY <1>6, <1>7, <1>8, NextScreened DEF IInv, Next

\* What leaves the position and the screen alone keeps the display.
LEMMA UntouchedInv ==
  ASSUME IInv, Next, UNCHANGED <<indicator, lastLineIsProgress, screen, todo, runs>>,
         mutex_' \in Thread \union {None}, main' \in {"run", "forced", "destroyed"},
         value' \in [Thread -> (spanStart_ .. spanEnd_) \union {None}],
         logged' \in 0 .. MaxLogs, Locked',
         main' /= main => main' /= "run" /\ spanPos_ = spanEnd_ /\ \A t \in Thread : todo[t] = 0
  PROVE  IInv'
<1>1. Made' = Made /\ TypeOK'
  BY DEF indicator, Made, IInv, TypeOK
<1>2. Positioned' /\ Advanced'
  BY <1>1 DEF indicator, IInv, Positioned, Advanced
<1> QED BY <1>1, <1>2, NextScreened DEF IInv

LEMMA NextInv == RewoundToStart /\ IInv /\ [Next]_vars => IInv'
<1> SUFFICES ASSUME RewoundToStart, IInv, [Next]_vars PROVE IInv'
  OBVIOUS
<1> USE DEF IInv
<1>1. ASSUME NEW t \in Thread, mtIncLock(t) PROVE IInv'
  <2>1. /\ mutex_ = None /\ mutex_' = t /\ main' = main /\ main = "run" /\ todo[t] > 0
        /\ value' = value /\ todo' = todo /\ logged' = logged
        /\ UNCHANGED <<indicator, lastLineIsProgress, screen, todo, runs>>
    BY <1>1 DEF mtIncLock
  <2>2. Locked'
    BY <2>1 DEF Locked
  <2> QED BY <1>1, <2>1, <2>2, UntouchedInv DEF TypeOK, Next, mtInc
<1>2. ASSUME NEW t \in Thread, mtIncRead(t) PROVE IInv'
  <2>1. /\ mutex_ = t /\ mutex_' = t /\ main' = main /\ todo' = todo /\ logged' = logged
        /\ value' = [value EXCEPT ![t] = spanPos_ + 1] /\ spanPos_' = spanPos_
        /\ UNCHANGED <<indicator, lastLineIsProgress, screen, todo, runs>>
    BY <1>2 DEF mtIncRead, indicator
  <2>2. main = "run" /\ todo[t] \in 1 .. Calls /\ spanPos_ = spanStart_ + Made
    BY <2>1 DEF Locked, Positioned, TypeOK
  <2>3. spanPos_ + 1 \in spanStart_ .. spanEnd_
    BY <2>2, MadeNotAll, MadeType, SpanFacts
  <2>4. /\ value' \in [Thread -> (spanStart_ .. spanEnd_) \union {None}]
        /\ value'[t] = spanPos_ + 1 /\ \A u \in Thread \ {t} : value'[u] = value[u]
    BY <2>1, <2>3 DEF TypeOK
  <2>5. Locked'
    BY <2>1, <2>4 DEF Locked
  <2> QED BY <1>2, <2>1, <2>4, <2>5, UntouchedInv DEF TypeOK, Next, mtInc
<1>3. ASSUME NEW t \in Thread, mtIncSet(t) PROVE IInv'
  BY <1>3, SetInv
<1>4. ASSUME log PROVE IInv'
  BY <1>4, LogInv
\* The last call of mtInc() has finished the indicator: there is nothing left
\* for forceEnd() and the destructor to do.
<1>5. ASSUME forceEnd PROVE IInv'
  <2>1. main = "run" /\ (\A t \in Thread : todo[t] = 0) /\ spanPos_ = spanEnd_
    <3>1. main = "run" /\ \A t \in Thread : todo[t] = 0
      BY <1>5 DEF forceEnd
    <3> QED BY <3>1, MadeAll, SpanFacts DEF Positioned
  <2>2. spanLength_ = 0 \/ state_ = "finished"
    BY <2>1, AtTheEnd
  <2>3. /\ UNCHANGED <<indicator, lastLineIsProgress, screen, todo, runs>>
        /\ mutex_' = mutex_ /\ main' = "forced" /\ value' = value /\ logged' = logged
    BY <1>5, <2>2 DEF forceEnd, setValue
  <2>4. \A t \in Thread : mutex_ /= t /\ value[t] = None
    BY <2>1 DEF Locked
  <2>5. Locked'
    BY <2>3, <2>4 DEF Locked
  <2> QED BY <1>5, <2>1, <2>3, <2>5, UntouchedInv DEF TypeOK, Next
<1>6. ASSUME rewind PROVE IInv'
  <2>1. spanStart_ = 0
    BY <1>6 DEF rewind, RewoundToStart, TypeOK
  <2>2. /\ current_' = 0 /\ spanPos_' = 0 /\ state_' = "ready" /\ main' = "run"
        /\ todo' = [t \in Thread |-> Calls] /\ runs' = runs + 1
        /\ lastLineIsProgress' = lastLineIsProgress /\ mutex_' = mutex_
        /\ screen' = screen /\ value' = value /\ logged' = logged
    BY <1>6 DEF rewind
  <2>3. TypeOK'
    <3>1. 0 \in spanStart_ .. spanEnd_ /\ 0 \in 0 .. scale_
      BY <2>1, SpanFacts
    <3>2. runs' \in 1 .. MaxRuns
      BY <1>6, <2>2 DEF rewind, TypeOK
    <3> QED BY <2>2, <3>1, <3>2 DEF TypeOK
  <2>4. \A t \in Thread : mutex_ /= t /\ value[t] = None
    BY <1>6 DEF rewind, Locked
  <2>5. Locked'
    BY <2>2, <2>4 DEF Locked
  <2>6. Positioned'
    BY <2>1, <2>2, MadeNone DEF Positioned
  <2>7. Advanced'
    <3>1. CASE spanLength_ = 0
      BY <2>2, <3>1 DEF Advanced
    <3>2. CASE spanLength_ /= 0
      <4>1. spanStart_ \in spanStart_ .. spanEnd_
        BY SpanFacts
      <4>2. count(0) = 0
        BY <2>1, <3>2, <4>1, CountFacts
      <4> QED BY <2>2, <3>2, <4>2 DEF Advanced
    <3> QED BY <3>1, <3>2
  <2> QED BY <1>6, <2>3, <2>5, <2>6, <2>7, NextScreened DEF Next
<1>7. ASSUME destroy PROVE IInv'
  <2>1. main = "forced" /\ spanPos_ = spanEnd_ /\ \A t \in Thread : todo[t] = 0
    BY <1>7 DEF destroy, Positioned
  <2>2. state_ /= "running"
    BY <2>1, AtTheEnd DEF Advanced
  <2>3. /\ UNCHANGED <<indicator, lastLineIsProgress, screen, todo, runs>>
        /\ mutex_' = mutex_ /\ main' = "destroyed" /\ value' = value /\ logged' = logged
    BY <1>7, <2>2 DEF destroy
  <2>4. \A t \in Thread : mutex_ /= t /\ value[t] = None
    BY <2>1 DEF Locked
  <2>5. Locked'
    BY <2>3, <2>4 DEF Locked
  <2> QED BY <1>7, <2>1, <2>3, <2>5, UntouchedInv DEF TypeOK, Next
<1>8. ASSUME UNCHANGED vars PROVE IInv'
  <2>1. UNCHANGED <<indicator, lastLineIsProgress, mutex_, screen, todo, value, main, logged, runs>>
    BY <1>8 DEF vars
  <2>2. TypeOK' /\ Locked' /\ Made' = Made
    BY <2>1 DEF indicator, TypeOK, Locked, Made
  <2>3. Positioned' /\ Advanced'
    BY <2>1, <2>2 DEF indicator, Positioned, Advanced
  <2> QED BY <1>8, <2>2, <2>3, NextScreened
<1> QED BY <1>1, <1>2, <1>3, <1>4, <1>5, <1>6, <1>7, <1>8 DEF Next, mtInc, Ended

LEMMA Inductive == ASSUME RewoundToStart PROVE Spec => []IInv
<1>1. IInv /\ [Next]_vars => IInv'
  BY NextInv
<1> QED BY InitInv, <1>1, PTL DEF Spec

(***************************************************************************)
(* Theorems                                                                *)
(***************************************************************************)

\* The position stays within the span, the count within the scale, and only
\* percentages and lines of the log get to the screen.
THEOREM TypeCorrect == ASSUME RewoundToStart PROVE Spec => []TypeOK
<1>1. IInv => TypeOK
  BY DEF IInv
<1> QED BY Inductive, <1>1, PTL

\* mtInc() reads and sets the position under the mutex of the log: no call is
\* lost to another thread's.
THEOREM NoCallLost == ASSUME RewoundToStart PROVE Spec => []NothingLost
<1>1. IInv => NothingLost
  BY DEF IInv, Positioned, NothingLost
<1> QED BY Inductive, <1>1, PTL

\* What the screen shows last is the part of the calls made, rounded down to
\* the scale: a line of the log that comes between hides no advance.
THEOREM ShowsTheCallsMade == ASSUME RewoundToStart PROVE Spec => []ShowsWhatIsDone
<1>1. ASSUME IInv PROVE ShowsWhatIsDone
  <2> SUFFICES ASSUME main = "run", state_ /= "ready"
               PROVE  Shows(screen, Percent((Made * scale_) \div spanLength_))
    BY DEF ShowsWhatIsDone
  <2>1. spanPos_ - spanStart_ = Made /\ spanPos_ \in spanStart_ .. spanEnd_
    BY <1>1, MadeType, SpanFacts DEF IInv, Positioned, TypeOK
  <2>2. spanLength_ /= 0 /\ current_ = count(spanPos_) /\ Shows(screen, Percent(current_))
    BY <1>1 DEF IInv, Advanced
  <2>3. count(spanPos_) = (Made * scale_) \div spanLength_
    BY <2>1, <2>2, CountFacts
  <2> QED BY <2>2, <2>3
<1> QED BY Inductive, <1>1, PTL

=============================================================================
