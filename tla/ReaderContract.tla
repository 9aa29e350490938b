--------------------------- MODULE ReaderContract ---------------------------
(***************************************************************************)
(* What the client of an ObservationReader relies on                       *)
(* (io/nuklei/ObservationIO.h): a reader that has started gives the        *)
(* observations its file then held and that lie in the regions of interest *)
(* in their order and once each, and reports the end when none is left.  A *)
(* call may throw, and may then lose observations.  Nothing is promised    *)
(* from a start that threw to the next one that succeeds.                  *)
(***************************************************************************)
EXTENDS Naturals, Sequences

CONSTANT Item   \* the observations

VARIABLES
  contents,  \* the observations in the file
  todo,      \* those the reader has not delivered or passed over yet
  wanted,    \* those in the regions of interest
  said,      \* the latest result of the reader
  promised   \* has the last start succeeded?

vars == <<contents, todo, wanted, said, promised>>

Init ==
  /\ contents \in Seq(Item)
  /\ todo = << >>
  /\ wanted \subseteq Item
  /\ said = "none"
  /\ ~promised

\* Another program changes the file.
Replace == contents' \in Seq(Item) /\ UNCHANGED <<todo, wanted, said, promised>>

Start ==
  /\ promised'
  /\ todo' = contents
  /\ wanted' \subseteq Item
  /\ said' = "none"
  /\ UNCHANGED contents

Break == ~promised' /\ todo' = << >> /\ wanted' \subseteq Item /\ UNCHANGED contents

Restrict == wanted' \subseteq Item /\ UNCHANGED <<contents, todo, said, promised>>

Call == said' = "reading" /\ UNCHANGED <<contents, todo, wanted, promised>>

Deliver ==
  /\ todo /= << >>
  /\ Head(todo) \in wanted
  /\ said' = Head(todo)
  /\ todo' = Tail(todo)
  /\ UNCHANGED <<contents, wanted, promised>>

PassOver ==
  /\ todo /= << >>
  /\ Head(todo) \notin wanted
  /\ todo' = Tail(todo)
  /\ UNCHANGED <<contents, wanted, said, promised>>

End ==
  /\ todo = << >>
  /\ said' = "end"
  /\ UNCHANGED <<contents, todo, wanted, promised>>

Throw ==
  /\ \E n \in 0 .. Len(todo) : todo' = SubSeq(todo, n + 1, Len(todo))
  /\ said' \in {"error", "ioerror", "mismatch"}
  /\ UNCHANGED <<contents, wanted, promised>>

Next ==
  \/ Replace \/ Start \/ Break
  \/ promised /\ (Restrict \/ Call \/ Deliver \/ PassOver \/ End \/ Throw)

Spec == Init /\ [][Next]_vars
=============================================================================
