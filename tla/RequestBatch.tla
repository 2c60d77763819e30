---------------------------- MODULE RequestBatch ----------------------------
(***************************************************************************)
(* ForumManager::RequestBatch (src/Core/ForumManager.hpp): the threads to   *)
(* ask for next, all of one forum, those of other forums parked for later,  *)
(* and markers that keep a thread from being asked twice.  A thread is a    *)
(* forum and a number.                                                      *)
(***************************************************************************)
EXTENDS Naturals, SequencesExt

Forum(t) == t[1]

EmptyBatch(f) ==
  [requested |-> {}, pending |-> <<>>, forum |-> f, overflow |-> <<>>, flushScheduled |-> FALSE]

Batches(Threads) ==
  [requested : SUBSET Threads, pending : Seq(Threads), forum : {Forum(t) : t \in Threads},
   overflow : Seq(Threads), flushScheduled : BOOLEAN]

\* add: a thread of another forum than the batch's is parked.
Add(b, t) ==
  CASE t \in b.requested -> b
    [] t \notin b.requested /\ b.pending # <<>> /\ b.forum # Forum(t) ->
         [b EXCEPT !.overflow = Append(@, t)]
    [] OTHER ->
         [b EXCEPT !.requested = @ \cup {t}, !.pending = Append(@, t), !.forum = Forum(t),
                   !.flushScheduled = TRUE]

\* What add returns: a flush is to be scheduled.
Schedules(b, t) == Add(b, t).flushScheduled /\ ~b.flushScheduled

\* mutant: a thread of another forum is dropped
TakenWithoutParked(b) ==
  [b EXCEPT !.flushScheduled = FALSE, !.pending = <<>>, !.overflow = <<>>]

\* take, which adds the parked threads again.
Taken(b) ==
  FoldLeft(Add, [b EXCEPT !.flushScheduled = FALSE, !.pending = <<>>, !.overflow = <<>>], b.overflow)

\* A sequence of threads without t (removeAll).
Unparked(ts, t) == FoldLeft(LAMBDA r, u : IF u = t THEN r ELSE Append(r, u), <<>>, ts)

\* forget.
Forget(b, t) ==
  [b EXCEPT !.requested = @ \ {t}, !.pending = RemoveFirst(@, t), !.overflow = Unparked(@, t)]

Release(b, T) == [b EXCEPT !.requested = @ \ T]
HasPending(b) == b.pending # <<>> \/ b.overflow # <<>>

\* Every thread the batch is to answer for: marked, or parked without a marker.
Asked(b) == b.requested \cup ToSet(b.overflow)

=============================================================================
