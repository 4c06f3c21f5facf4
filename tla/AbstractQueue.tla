--------------------------- MODULE AbstractQueue ---------------------------
(***************************************************************************)
(* What one producer's queue promises: items come out in the order they    *)
(* went in, each to one dequeue, and a dequeue comes back empty-handed     *)
(* only if the queue was empty, or somebody else was dequeueing, at some   *)
(* moment while it ran.                                                    *)
(***************************************************************************)
EXTENDS Naturals, Sequences

CONSTANTS Items, Dequeuers, MaxCount, MaxBulk

VARIABLES
  q,        (* the items enqueued and not taken                            *)
  busy,     (* the dequeuers in a dequeue                                  *)
  held,     (* what each has taken                                         *)
  excused   (* those that may come back empty-handed                       *)

vars == <<q, busy, held, excused>>

Init ==
  /\ q = << >>
  /\ busy = {}
  /\ held = [c \in Dequeuers |-> << >>]
  /\ excused = {}

(* An enqueue of up to MaxCount items puts all of them in at once.         *)
Enqueue ==
  /\ UNCHANGED <<busy, excused, held>>
  /\ q' \in Seq(Items)
  /\ Len(q') \in Len(q) + 1 .. Len(q) + MaxCount
  /\ SubSeq(q', 1, Len(q)) = q

Begin(c) ==
  /\ c \notin busy
  /\ busy' = busy \union {c}
  /\ excused' = excused \union IF busy # {} THEN busy'
                               ELSE IF q = << >> THEN {c} ELSE {}
  /\ UNCHANGED <<q, held>>

Take(c) ==
  /\ c \in busy
  /\ UNCHANGED busy
  /\ held[c] = << >>
  /\ \E n \in 1 .. MaxBulk :
       /\ n <= Len(q)
       /\ held' = [held EXCEPT ![c] = SubSeq(q, 1, n)]
       /\ q' = SubSeq(q, n + 1, Len(q))
  /\ excused' = excused \union IF q' = << >> THEN busy ELSE {}

Leave(c) ==
  /\ c \in busy
  /\ busy' = busy \ {c}
  /\ excused' = excused \ {c}

Fail(c) ==
  /\ Leave(c)
  /\ c \in excused
  /\ held[c] = << >>
  /\ UNCHANGED <<q, held>>

Finish(c) ==
  /\ Leave(c)
  /\ held[c] # << >>
  /\ held' = [held EXCEPT ![c] = << >>]
  /\ UNCHANGED q

Next ==
  \/ Enqueue
  \/ \E c \in Dequeuers : Begin(c) \/ Take(c) \/ Fail(c) \/ Finish(c)

Spec == Init /\ [][Next]_vars
=============================================================================
