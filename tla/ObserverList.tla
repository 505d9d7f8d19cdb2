----------------------------- MODULE ObserverList -----------------------------
(***************************************************************************)
(* The observers of DefaultSignalingClient: a std::vector of pointers that *)
(* NotifySignalingObserver walks with a range-for                          *)
(* (src/signaling/default_signaling_client.h), calling observers that may  *)
(* remove observers from it.                                               *)
(*                                                                         *)
(* The loop's two iterators are fixed when it begins.  erase() moves the   *)
(* later elements down and leaves the last cell's value where it was, for  *)
(* the loop to read.  An observer that is added while one is being called  *)
(* may move the vector's memory away altogether; that is left out.         *)
(***************************************************************************)
EXTENDS Naturals, Sequences, SequencesExt

CONSTANT Observer

VARIABLES
  memory,      \* the cells of the vector's buffer that were ever written
  size,        \* how many of them are in the vector
  notifying,   \* within NotifySignalingObserver
  begin, end,  \* its iterators, as indexes of memory
  called,      \* the observer it is calling, if any
  heard,       \* how often each observer was called in this notification
  owed         \* the observers in the vector ever since it began

vars == <<memory, size, notifying, begin, end, called, heard, owed>>

observers_ == SubSeq(memory, 1, size)
Registered == ToSet(observers_)

Init ==
  /\ memory = <<>> /\ size = 0
  /\ notifying = FALSE /\ begin = 1 /\ end = 1
  /\ called = {}
  /\ heard = [o \in Observer |-> 0]
  /\ owed = {}

AddSignalingClientObserver(o) ==
  /\ ~notifying /\ o \notin Registered
  /\ memory' = IF size < Len(memory) THEN [memory EXCEPT ![size + 1] = o]
               ELSE Append(memory, o)
  /\ size' = size + 1
  /\ UNCHANGED <<notifying, begin, end, called, heard, owed>>

\* Called between two notifications, or by the observer that is being called.
RemoveSignalingClientObserver(o) ==
  /\ notifying => called # {}
  /\ o \in Registered
  /\ LET found == CHOOSE i \in 1 .. size : memory[i] = o
     IN memory' = [i \in DOMAIN memory |->
                     IF found <= i /\ i < size THEN memory[i + 1] ELSE memory[i]]
  /\ size' = size - 1
  /\ owed' = owed \ {o}
  /\ UNCHANGED <<notifying, begin, end, called, heard>>

NotifyBegins ==
  /\ ~notifying
  /\ notifying' = TRUE
  /\ begin' = 1 /\ end' = size + 1
  /\ heard' = [o \in Observer |-> 0]
  /\ owed' = Registered
  /\ UNCHANGED <<memory, size, called>>

CallObserver ==
  /\ notifying /\ called = {} /\ begin # end
  /\ called' = {memory[begin]}
  /\ heard' = [heard EXCEPT ![memory[begin]] = @ + 1]
  /\ UNCHANGED <<memory, size, notifying, begin, end, owed>>

ObserverReturns ==
  /\ called # {}
  /\ called' = {}
  /\ begin' = begin + 1
  /\ UNCHANGED <<memory, size, notifying, end, heard, owed>>

NotifyEnds ==
  /\ notifying /\ called = {} /\ begin = end
  /\ notifying' = FALSE
  /\ UNCHANGED <<memory, size, begin, end, called, heard, owed>>

Next ==
  \/ NotifyBegins \/ CallObserver \/ ObserverReturns \/ NotifyEnds
  \/ \E o \in Observer : \/ AddSignalingClientObserver(o)
                         \/ RemoveSignalingClientObserver(o)

Spec == Init /\ [][Next]_vars

-----------------------------------------------------------------------------
\* An observer that stays hears of everything once, even when another one
\* removes itself in its OnSignalingClientStopped.
ObserversHearOnce == notifying /\ begin = end => \A o \in owed : heard[o] = 1
=============================================================================
