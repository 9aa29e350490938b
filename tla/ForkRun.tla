------------------------------ MODULE ForkRun ------------------------------
(***************************************************************************)
(* parallelizer::run_fork and reap (base/nuklei/parallelizer.h:45-105,     *)
(* base/parallelizer.cpp:15-20).  The parent forks N children; each child  *)
(* computes its value, connects to a local socket and sends it.  The       *)
(* parent creates that socket only AFTER the last fork, accepts N          *)
(* connections, reads one value from each, removes the socket file and     *)
(* reaps the children that have exited by then.                            *)
(*                                                                         *)
(* A child that reaches its connect before the parent listens, or whose    *)
(* callable throws, never delivers its value.  An archive that writes to   *)
(* an unconnected stream either throws or leaves the bytes in the stream   *)
(* buffer, which the stream's destructor drops: both are modelled.         *)
(***************************************************************************)
EXTENDS Naturals, Sequences, Functions

CONSTANTS
  N,              \* n_, the number of children
  Faulty,         \* the tasks whose callable may throw or whose child may die
  OsMayFail,      \* may fork(), or the creation of the socket, fail?
  None            \* no connection

Task == 0 .. N - 1

VARIABLES
  parent,         \* where the parent is in run_fork
  forked,         \* the number of children forked so far
  child,          \* child[i]: where child i is
  sent,           \* history: the children whose whole message is in the socket
  listening,      \* does the acceptor exist?
  sockFile,       \* does the socket's file exist?
  backlog,        \* connections not accepted yet, oldest first
  current,        \* the connection the parent is reading, or None
  retv            \* the values read so far, named by their task

childVars  == <<child, sent>>
socketVars == <<listening, sockFile, backlog>>
vars == <<parent, forked, child, sent, listening, sockFile, backlog, current, retv>>

ParentState == {"fork", "bind", "accept", "read", "reap", "returned", "threw"}

ChildState ==
  {"unborn",
   "computing",   \* in the callable
   "ready",       \* the callable has returned, the child is about to connect
   "connected", "unconnected",
   "leaving",     \* the stream is closed, the child is about to _exit(0)
   "escaped",     \* an exception left run_fork in the child
   "zombie", "reaped"}

Dead == {"zombie", "reaped"}

TypeOK ==
  /\ parent \in ParentState
  /\ forked \in 0 .. N
  /\ child \in [Task -> ChildState]
  /\ sent \subseteq Task
  /\ listening \in BOOLEAN
  /\ sockFile \in BOOLEAN
  /\ backlog \in Seq(Task)
  /\ current \in Task \union {None}
  /\ retv \in Seq(Task)

Init ==
  /\ parent = "fork"
  /\ forked = 0
  /\ child = [i \in Task |-> "unborn"]
  /\ sent = {}
  /\ listening = FALSE
  /\ sockFile = FALSE
  /\ backlog = << >>
  /\ current = None
  /\ retv = << >>

Becomes(i, from, to) ==
  /\ child[i] \in from
  /\ child' = [child EXCEPT ![i] = to]

(***************************************************************************)
(* The parent                                                              *)
(***************************************************************************)
Fork ==
  /\ parent = "fork"
  /\ forked < N
  /\ Becomes(forked, {"unborn"}, "computing")
  /\ forked' = forked + 1
  /\ UNCHANGED <<parent, sent, socketVars, current, retv>>

\* NUKLEI_ASSERT(pid >= 0), or the acceptor's constructor, throws.
OsFails ==
  /\ OsMayFail
  /\ \/ parent = "fork" /\ forked < N
     \/ parent = "bind"
  /\ parent' = "threw"
  /\ UNCHANGED <<forked, childVars, socketVars, current, retv>>

ForksDone ==
  /\ parent = "fork"
  /\ forked = N
  /\ parent' = "bind"
  /\ UNCHANGED <<forked, childVars, socketVars, current, retv>>

Bind ==
  /\ parent = "bind"
  /\ parent' = "accept"
  /\ listening' = TRUE
  /\ sockFile' = TRUE
  /\ UNCHANGED <<forked, childVars, backlog, current, retv>>

\* A wrong Accept: connections are accepted in pairs.
AcceptTwo ==
  /\ parent = "accept"
  /\ Len(retv) < N
  /\ Len(backlog) > 1
  /\ parent' = "read"
  /\ current' = Head(backlog)
  /\ backlog' = Tail(backlog)
  /\ UNCHANGED <<forked, childVars, listening, sockFile, retv>>

Accept ==
  /\ parent = "accept"
  /\ Len(retv) < N
  /\ backlog /= << >>
  /\ parent' = "read"
  /\ current' = Head(backlog)
  /\ backlog' = Tail(backlog)
  /\ UNCHANGED <<forked, childVars, listening, sockFile, retv>>

Read ==
  /\ parent = "read"
  /\ current \in sent
  /\ parent' = "accept"
  /\ retv' = Append(retv, current)
  /\ current' = None
  /\ UNCHANGED <<forked, childVars, socketVars>>

\* The peer died before it sent its value: the archive throws, and the
\* exception leaves run_fork with the socket's file in place.
ReadFails ==
  /\ parent = "read"
  /\ current \notin sent
  /\ child[current] \in Dead
  /\ parent' = "threw"
  /\ listening' = FALSE
  /\ backlog' = << >>
  /\ current' = None
  /\ UNCHANGED <<forked, childVars, sockFile, retv>>

\* A wrong RemoveEndpoint: the loop ends one value early.
RemoveEndpointEarly ==
  /\ parent = "accept"
  /\ Len(retv) + 1 >= N
  /\ parent' = "reap"
  /\ sockFile' = FALSE
  /\ UNCHANGED <<forked, childVars, listening, backlog, current, retv>>

RemoveEndpoint ==
  /\ parent = "accept"
  /\ Len(retv) = N
  /\ parent' = "reap"
  /\ sockFile' = FALSE
  /\ UNCHANGED <<forked, childVars, listening, backlog, current, retv>>

\* One turn of reap()'s loop: waitpid(-1, WNOHANG) finds an exited child...
Reap(i) ==
  /\ parent = "reap"
  /\ Becomes(i, {"zombie"}, "reaped")
  /\ UNCHANGED <<parent, forked, sent, socketVars, current, retv>>

\* ... or none, and run_fork returns.
Return ==
  /\ parent = "reap"
  /\ \A i \in Task : child[i] /= "zombie"
  /\ parent' = "returned"
  /\ listening' = FALSE
  /\ UNCHANGED <<forked, childVars, sockFile, backlog, current, retv>>

(***************************************************************************)
(* The children                                                            *)
(***************************************************************************)
Compute(i) ==
  /\ Becomes(i, {"computing"}, "ready")
  /\ UNCHANGED <<parent, forked, sent, socketVars, current, retv>>

\* A wrong Connect: the queue holds one connection only.
ConnectToShortQueue(i) ==
  /\ Becomes(i, {"ready"}, IF listening THEN "connected" ELSE "unconnected")
  /\ backlog' = IF listening THEN <<i>> ELSE backlog
  /\ UNCHANGED <<parent, forked, sent, listening, sockFile, current, retv>>

Connect(i) ==
  /\ Becomes(i, {"ready"}, IF listening THEN "connected" ELSE "unconnected")
  /\ backlog' = IF listening THEN Append(backlog, i) ELSE backlog
  /\ UNCHANGED <<parent, forked, sent, listening, sockFile, current, retv>>

Send(i) ==
  /\ listening
  /\ Becomes(i, {"connected"}, "leaving")
  /\ sent' = sent \union {i}
  /\ UNCHANGED <<parent, forked, socketVars, current, retv>>

\* There is no peer: the archive throws, or the bytes are silently dropped.
SendFails(i) ==
  /\ child[i] = "connected" => ~listening
  /\ \E to \in {"escaped", "leaving"} :
       Becomes(i, {"connected", "unconnected"}, to)
  /\ UNCHANGED <<parent, forked, sent, socketVars, current, retv>>

\* The callable throws: nothing in run_fork catches it, so the child goes on
\* in its copy of the caller's code.
Throw(i) ==
  /\ i \in Faulty
  /\ Becomes(i, {"computing"}, "escaped")
  /\ UNCHANGED <<parent, forked, sent, socketVars, current, retv>>

\* A wrong Exit: a child whose callable threw stays.
ExitWhenSent(i) ==
  /\ Becomes(i, {"leaving"}, "zombie")
  /\ UNCHANGED <<parent, forked, sent, socketVars, current, retv>>

Exit(i) ==
  /\ Becomes(i, {"leaving", "escaped"}, "zombie")
  /\ UNCHANGED <<parent, forked, sent, socketVars, current, retv>>

\* The child is killed before it has sent its value.
Die(i) ==
  /\ i \in Faulty
  /\ Becomes(i, {"computing", "ready", "connected"}, "zombie")
  /\ UNCHANGED <<parent, forked, sent, socketVars, current, retv>>

ParentNext ==
  \/ Fork \/ ForksDone \/ Bind \/ Accept \/ Read \/ ReadFails
  \/ RemoveEndpoint \/ Return
  \/ \E i \in Task : Reap(i)

ChildNext(i) ==
  \/ Compute(i) \/ Connect(i) \/ Send(i) \/ SendFails(i) \/ Exit(i)

Next ==
  \/ ParentNext
  \/ OsFails
  \/ \E i \in Task : ChildNext(i) \/ Throw(i) \/ Die(i)

Spec == Init /\ [][Next]_vars

(***************************************************************************)
(* Properties                                                              *)
(***************************************************************************)
Delivered == Range(retv)

\* The child has ended, or is bound to end, without delivering its value.
Lost(i) ==
  /\ i \notin sent
  /\ child[i] \in {"unconnected", "leaving", "escaped"} \union Dead

\* run_fork never returns with a value missing or a value read twice: the
\* vector it returns holds exactly one value of every task, whatever the
\* order in which the children connect (the retv.push_back loop).
CompleteOnReturn ==
  parent = "returned" => Len(retv) = N /\ Delivered = Task

\* As long as no child has been lost, nothing that the parent needs can be
\* missing: the values are read, waiting in the socket, or still to come.
NothingVanishes ==
  listening =>
    \A i \in Task :
      \/ i \in Delivered \/ i = current \/ Lost(i)
      \/ child[i] \in {"computing", "ready"}
      \/ i \in Range(backlog)

(***************************************************************************)
(* The inductive invariant                                                 *)
(***************************************************************************)
\* Where the parent is decides which of its resources exist.
Phases ==
  /\ parent = "read" <=> current /= None
  /\ listening <=> parent \in {"accept", "read", "reap"}
  /\ parent \in {"bind", "accept", "read", "reap", "returned"} => forked = N
  /\ \A i \in Task : forked <= i <=> child[i] = "unborn"
  /\ parent \in {"reap", "returned"} => Len(retv) = N
  /\ parent \in {"fork", "bind"} =>
       sent = {} /\ \A i \in Task : child[i] /= "connected"
  /\ \A i \in sent : child[i] \in {"leaving"} \union Dead

\* Each connection is waiting, being read, or has been read, and only one of
\* these; only a child that has connected has one.
OneConnection ==
  /\ IsInjective(retv) /\ IsInjective(backlog)
  /\ Delivered \intersect Range(backlog) = {}
  /\ current \notin Delivered \union Range(backlog)
  /\ \A i \in Task :
       i \in Delivered \/ i = current \/ i \in Range(backlog) =>
         child[i] \in {"connected", "leaving", "escaped"} \union Dead

IInv == TypeOK /\ Phases /\ OneConnection /\ NothingVanishes

(***************************************************************************)
(* Liveness, and the contract of run()                                     *)
(***************************************************************************)
\* The only thing that keeps run_fork from ending is a child that ended, or
\* will end, without delivering: accept() waits for it for ever.
EndsUnlessLost ==
  <>(parent \in {"returned", "threw"} \/ \E i \in Task : Lost(i))

\* No child outlives its work: whatever happens to the parent, every child
\* that was forked ends (it never waits for the parent).
ChildrenEnd ==
  \A i \in Task : (child[i] = "computing") ~> (child[i] \in Dead)

\* run_fork implements the contract of run().
Ending ==
  CASE parent = "returned" -> "returned"
    [] parent = "threw" -> "failed"
    [] OTHER -> "running"

Contract == INSTANCE ParallelRun WITH results <- Delivered, outcome <- Ending
=============================================================================
