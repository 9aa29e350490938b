------------------------- MODULE ProgressIndicator -------------------------
(***************************************************************************)
(* ProgressIndicator (base/ProgressIndicator.cpp) and the terminal it      *)
(* shares with the log (base/Log.cpp:43-62), in the use the pose estimator *)
(* makes of them (kernel/PoseEstimator.cpp:62-69, 483): the threads of     *)
(* run_openmp share one indicator, advance it with mtInc() and log their   *)
(* results; the caller initializes it before and calls forceEnd() after.   *)
(* rewind() and a second use are included.                                 *)
(*                                                                         *)
(* The screen is the sequence of its lines: a percentage, or a line of the *)
(* log.  backspaceSequence erases the last line.                           *)
(***************************************************************************)
EXTENDS Integers, SequencesExt

CONSTANTS
  Thread,
  Calls,          \* the calls of mtInc() each thread makes
  spanStart_,
  scale_,         \* 10, or 100 on an interactive terminal
  backspace_,
  MaxLogs,        \* bound: lines logged in a run
  MaxRuns,        \* bound: uses of the indicator
  None

ASSUME CallsAssumption == Calls \in Nat
ASSUME SpanAssumption == spanStart_ \in Int /\ scale_ \in Nat \ {0}
ASSUME BackspaceAssumption == backspace_ \in BOOLEAN
ASSUME BoundsAssumption == MaxLogs \in Nat /\ MaxRuns \in Nat \ {0}
ASSUME ThreadAssumption == IsFiniteSet(Thread) /\ None \notin Thread /\ None \notin Int

VARIABLES
  state_,
  spanPos_,
  current_,
  lastLineIsProgress, \* LAST_OUTPUT_LINE_IS_PROGRESS
  mutex_,         \* the thread that holds Log::mutex_, or None
  screen,
  todo,           \* todo[t]: the calls of mtInc() thread t has still to make
  value,          \* value[t]: the argument t computed for setValue(), or None
  main,           \* the caller: "run" while the threads work
  logged,         \* history: the lines logged
  runs            \* the uses of the indicator so far

indicator == <<state_, spanPos_, current_>>
vars == <<indicator, lastLineIsProgress, mutex_, screen, todo, value, main, logged, runs>>

\* initialize() is given the number of calls to come
\* (PoseEstimator.cpp:63: one in ten of the steps of all the chains).
spanLength_ == Calls * Cardinality(Thread)
spanEnd_ == spanStart_ + spanLength_

LogLine == -1

TypeOK ==
  /\ state_ \in {"ready", "running", "finished"}
  /\ spanPos_ \in spanStart_ .. spanEnd_
  /\ current_ \in 0 .. scale_
  /\ lastLineIsProgress \in BOOLEAN
  /\ mutex_ \in Thread \union {None}
  /\ screen \in Seq(-1 .. 100)
  /\ todo \in [Thread -> 0 .. Calls]
  /\ value \in [Thread -> (spanStart_ .. spanEnd_) \union {None}]
  /\ main \in {"run", "forced", "destroyed"}
  /\ logged \in 0 .. MaxLogs
  /\ runs \in 1 .. MaxRuns

\* initialize() ends with setValue(spanStart_), which does nothing on an empty
\* span.
Init ==
  /\ state_ = IF spanLength_ = 0 THEN "ready" ELSE "running"
  /\ spanPos_ = spanStart_
  /\ current_ = 0
  /\ lastLineIsProgress = (spanLength_ /= 0)
  /\ mutex_ = None
  /\ screen = IF spanLength_ = 0 THEN << >> ELSE <<0>>
  /\ todo = [t \in Thread |-> Calls]
  /\ value = [t \in Thread |-> None]
  /\ main = "run"
  /\ logged = 0
  /\ runs = 1

\* A wrong count: rounded up.
countUp(v) ==
  IF v < spanStart_ THEN 0
  ELSE ((v - spanStart_) * scale_ + spanLength_ - 1) \div spanLength_

\* C++ divides towards zero: a position before the start counts for nothing.
count(v) ==
  IF v < spanStart_ THEN 0 ELSE ((v - spanStart_) * scale_) \div spanLength_

Percent(c) == (c * 100) \div scale_

\* A progress line replaces the line above it if that is one too.
Displayed(lines, line, overProgress) ==
  Append(IF backspace_ /\ overProgress THEN Front(lines) ELSE lines, line)

setValue(v) ==
  IF state_ = "finished" \/ spanLength_ = 0
  THEN UNCHANGED <<indicator, lastLineIsProgress, screen>>
  ELSE LET started == IF state_ = "ready" THEN Append(screen, 0) ELSE screen
           overProgress == state_ = "ready" \/ lastLineIsProgress
           advanced == count(v) > current_
       IN  /\ spanPos_' = v
           /\ lastLineIsProgress' = (advanced \/ overProgress)
           /\ current_' = IF advanced THEN count(v) ELSE current_
           /\ screen' = IF advanced
                        THEN Displayed(started, Percent(count(v)), overProgress)
                        ELSE started
           /\ state_' = IF advanced /\ count(v) = scale_ THEN "finished" ELSE "running"

\* mtInc(): take Log::mutex_, read the position, set it.
mtIncLock(t) ==
  /\ main = "run"
  /\ todo[t] > 0
  /\ mutex_ = None
  /\ mutex_' = t
  /\ UNCHANGED <<indicator, lastLineIsProgress, screen, todo, value, main, logged, runs>>

\* A wrong mtInc(): the mutex is released before the position is set.
mtIncReadUnlock(t) ==
  /\ mutex_ = t
  /\ value[t] = None
  /\ value' = [value EXCEPT ![t] = spanPos_ + 1]
  /\ mutex_' = None
  /\ UNCHANGED <<indicator, lastLineIsProgress, screen, todo, main, logged, runs>>

mtIncRead(t) ==
  /\ mutex_ = t
  /\ value[t] = None
  /\ value' = [value EXCEPT ![t] = spanPos_ + 1]
  /\ UNCHANGED <<indicator, lastLineIsProgress, mutex_, screen, todo, main, logged, runs>>

\* A wrong mtInc(): the mutex is not released.
mtIncSetLocked(t) ==
  /\ value[t] /= None
  /\ todo[t] > 0
  /\ setValue(value[t])
  /\ todo' = [todo EXCEPT ![t] = @ - 1]
  /\ value' = [value EXCEPT ![t] = None]
  /\ UNCHANGED <<mutex_, main, logged, runs>>

mtIncSet(t) ==
  /\ value[t] /= None
  /\ setValue(value[t])
  /\ todo' = [todo EXCEPT ![t] = @ - 1]
  /\ value' = [value EXCEPT ![t] = None]
  /\ mutex_' = None
  /\ UNCHANGED <<main, logged, runs>>

\* A wrong log(): the line is taken for one of progress.
logUnflagged ==
  /\ main = "run"
  /\ mutex_ = None
  /\ logged < MaxLogs
  /\ screen' = Append(screen, LogLine)
  /\ logged' = logged + 1
  /\ UNCHANGED <<indicator, lastLineIsProgress, mutex_, todo, value, main, runs>>

\* Log::log(), whole under its mutex.
log ==
  /\ main = "run"
  /\ mutex_ = None
  /\ logged < MaxLogs
  /\ lastLineIsProgress' = FALSE
  /\ screen' = Append(screen, LogLine)
  /\ logged' = logged + 1
  /\ UNCHANGED <<indicator, mutex_, todo, value, main, runs>>

\* The caller, after the parallel loop.
forceEnd ==
  /\ main = "run"
  /\ \A t \in Thread : todo[t] = 0
  /\ setValue(spanEnd_)
  /\ main' = "forced"
  /\ UNCHANGED <<mutex_, todo, value, logged, runs>>

\* A wrong rewind(): it leaves the position.
rewindInPlace ==
  /\ main = "forced"
  /\ runs < MaxRuns
  /\ current_' = 0
  /\ state_' = "ready"
  /\ todo' = [t \in Thread |-> Calls]
  /\ main' = "run"
  /\ runs' = runs + 1
  /\ UNCHANGED <<spanPos_, lastLineIsProgress, mutex_, screen, value, logged>>

\* rewind(), and the indicator is used for as many calls again.
rewind ==
  /\ main = "forced"
  /\ runs < MaxRuns
  /\ current_' = 0
  /\ spanPos_' = 0
  /\ state_' = "ready"
  /\ todo' = [t \in Thread |-> Calls]
  /\ main' = "run"
  /\ runs' = runs + 1
  /\ UNCHANGED <<lastLineIsProgress, mutex_, screen, value, logged>>

\* ~ProgressIndicator()
destroy ==
  /\ main = "forced"
  /\ IF state_ = "running" THEN setValue(spanEnd_)
     ELSE UNCHANGED <<indicator, lastLineIsProgress, screen>>
  /\ main' = "destroyed"
  /\ UNCHANGED <<mutex_, todo, value, logged, runs>>

mtInc(t) == mtIncLock(t) \/ mtIncRead(t) \/ mtIncSet(t)

Ended == main = "destroyed" /\ UNCHANGED vars

Next ==
  \/ \E t \in Thread : mtInc(t)
  \/ log \/ forceEnd \/ rewind \/ destroy
  \/ Ended

Spec == Init /\ [][Next]_vars

\* The threads are scheduled (a mutex some thread has left is taken by one that
\* waits for it), and the caller goes on.
FairSpec ==
  Spec /\ WF_vars(\E t \in Thread : mtInc(t)) /\ WF_vars(forceEnd) /\ WF_vars(destroy)

(***************************************************************************)
(* Properties                                                              *)
(***************************************************************************)
\* The calls the threads have made since the indicator was made ready.
Made == Cardinality({c \in Thread \X (1 .. Calls) : todo[c[1]] < c[2]})

\* No call of mtInc() is lost to another thread's, and a rewound indicator
\* counts from its start.
NothingLost == mutex_ = None /\ main = "run" => spanPos_ = spanStart_ + Made

\* The last line of progress: only lines of the log are below it.
Shows(lines, line) ==
  \E k \in DOMAIN lines :
    /\ lines[k] = line
    /\ \A j \in k + 1 .. Len(lines) : lines[j] = LogLine

\* The percentage displayed last is the part of the calls that was made: never
\* 100% before the last call.
ShowsWhatIsDone ==
  mutex_ = None /\ main = "run" /\ state_ /= "ready" =>
    Shows(screen, Percent((Made * scale_) \div spanLength_))

LogLines(lines) == {k \in DOMAIN lines : lines[k] = LogLine}

\* backspaceSequence erases lines of progress only: every line logged stays.
LogIsKept == Cardinality(LogLines(screen)) = logged

\* The threads never wait for one another for ever.
Ends == <>(main = "destroyed")
=============================================================================
