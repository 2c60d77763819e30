---------------------------- MODULE ForumUnreads ----------------------------
(***************************************************************************)
(* Unread counts of forum posts: ForumManager (src/Core/ForumManager.cpp)   *)
(* asks for them over the gateway, whose replies do not say what they       *)
(* answer: one forum at a time, with a watchdog.                            *)
(*                                                                         *)
(* All of it runs on the UI thread; a request may be lost, or answered      *)
(* after its 30 s.  Batches of more than 180 threads are not split.         *)
(***************************************************************************)
EXTENDS RequestBatch

CONSTANTS Threads,    \* pairs of a forum and a number
          MaxPending, \* bound on the threads of a batch and on those parked
          MaxTimers,  \* bound on the flushes scheduled
          MaxRequests \* bound on the batch requests under way

ASSUME ForumUnreadsAssumption ==
  MaxPending \in Nat /\ MaxTimers \in Nat /\ MaxRequests \in Nat \ {0}

VARIABLES
  counts,   \* unreadCounts
  batch,    \* unreadBatch
  taken,    \* its lastTaken: the threads asked last
  due,      \* its 30 s are over
  timers,   \* flushes scheduled
  requests, \* batch requests under way, and whether their watchdog has given up
  mixed,    \* history: a reply came after its 30 s, for a batch given up
  jammed    \* history: a flush found nothing to do and left flushScheduled set

forumVars == <<counts, batch, taken, due, timers, requests, mixed, jammed>>

ForumTypeOK ==
  /\ counts \subseteq Threads
  /\ batch \in Batches(Threads) /\ taken \subseteq Threads
  /\ due \in BOOLEAN /\ (due => taken # {})
  /\ timers \in 0..MaxTimers /\ mixed \in BOOLEAN /\ jammed \in BOOLEAN
  /\ requests \in Seq([threads : SUBSET Threads, late : BOOLEAN])

ForumInit ==
  /\ counts = {}
  /\ batch \in {EmptyBatch(Forum(t)) : t \in Threads}
  /\ taken = {} /\ due = FALSE /\ timers = 0 /\ requests = <<>> /\ mixed = FALSE /\ jammed = FALSE

Room == Len(batch.pending) < MaxPending /\ Len(batch.overflow) < MaxPending

-----------------------------------------------------------------------------
(* Unread counts.                                                          *)

\* A batch under way keeps the next one waiting, unless its watchdog is due.
Waits == taken # {} /\ ~due

\* forgetTaken for T, and what flushUnreadRequests then hands out of b: one forum's batch.
\* At the bound the oldest request is lost.
Flushed(b, T, rs) ==
  LET free == Release(b, T)
      next == IF free.pending = <<>> THEN Taken(free) ELSE free
      left == IF Len(rs) < MaxRequests THEN rs ELSE Tail(rs)
  IN IF HasPending(free)
     THEN [batch |-> Taken(next), taken |-> ToSet(next.pending),
           requests |-> Append(left, [threads |-> ToSet(next.pending), late |-> FALSE])]
     ELSE [batch |-> free, taken |-> {}, requests |-> left]

\* When nothing is pending, nobody calls take, which would reset flushScheduled.
Becomes(result) ==
  \E r \in {result} :
    /\ batch' = r.batch /\ taken' = r.taken /\ requests' = r.requests /\ due' = FALSE
    /\ jammed' = (jammed \/ (r.batch.flushScheduled /\ ~HasPending(r.batch) /\ timers' = 0))

\* ensureUnreadCount, as a post with something unread is painted.
EnsureUnreadCount(t) ==
  /\ t \notin counts /\ t \notin batch.requested
  /\ Room /\ (Schedules(batch, t) => timers < MaxTimers)
  /\ batch' = Add(batch, t)
  /\ timers' = IF Schedules(batch, t) THEN timers + 1 ELSE timers
  /\ UNCHANGED <<counts, taken, due, requests, mixed, jammed>>

\* flushUnreadRequests, from the timer.
FlushUnreadRequests ==
  /\ timers > 0 /\ timers' = timers - 1
  /\ IF Waits THEN UNCHANGED <<batch, taken, due, requests, jammed>>
              ELSE Becomes(Flushed(batch, taken, requests))
  /\ UNCHANGED <<counts, mixed>>

Late(rs) == [i \in DOMAIN rs |-> [rs[i] EXCEPT !.late = TRUE]]

\* The 30 s of the batch under way are over ...
Elapse ==
  /\ taken # {} /\ ~due /\ due' = TRUE /\ requests' = Late(requests)
  /\ UNCHANGED <<counts, batch, taken, timers, mixed, jammed>>

\* mutant: the watchdog releases the batch and hands out no other
OnTimeoutReleasesOnly ==
  /\ due /\ batch' = Release(batch, taken) /\ taken' = {} /\ due' = FALSE
  /\ UNCHANGED <<counts, timers, requests, mixed, jammed>>

\* ... and onUnreadReplyTimeout drops it, unless a flush has done so.
OnUnreadReplyTimeout ==
  /\ due /\ UNCHANGED timers
  /\ Becomes(Flushed(batch, taken, requests))
  /\ UNCHANGED <<counts, mixed>>

\* mutant: threads the reply says nothing of stay marked
AnsweredOnly(answered) == answered

\* What a reply releases: the batch handed out last.
Released(answered) == taken

\* onForumUnreads: permission denied, or counts for some of the threads.
OnForumUnreads(answered) ==
  /\ requests # <<>> /\ answered \subseteq Head(requests).threads /\ UNCHANGED timers
  /\ LET free == Release(batch, Released(answered))
         b == FoldSet(LAMBDA t, c : Forget(c, t), free, answered)
     IN Becomes(Flushed(b, {}, Tail(requests)))
  /\ counts' = counts \cup answered /\ mixed' = (mixed \/ Head(requests).late)

\* The gateway drops the request.
SrvDrops ==
  /\ requests # <<>> /\ requests' = Tail(requests)
  /\ UNCHANGED <<counts, batch, taken, due, timers, mixed, jammed>>

\* readStateUpdated for a post, and forgetPost for one that is deleted.
OnForget(t) ==
  /\ counts' = counts \ {t} /\ batch' = Forget(batch, t)
  /\ UNCHANGED <<taken, due, timers, requests, mixed, jammed>>

-----------------------------------------------------------------------------
ForumNext ==
  \/ FlushUnreadRequests \/ Elapse \/ OnUnreadReplyTimeout \/ SrvDrops
  \/ \E t \in Threads : EnsureUnreadCount(t) \/ OnForget(t)
  \/ \E answered \in SUBSET Threads : OnForumUnreads(answered)

ForumSpec == ForumInit /\ [][ForumNext]_forumVars

\* Timers fire; the gateway need not answer.
ForumFairSpec == ForumSpec /\ WF_forumVars(FlushUnreadRequests) /\ WF_forumVars(Elapse) /\ WF_forumVars(OnUnreadReplyTimeout)

-----------------------------------------------------------------------------
\* A thread asked for is waiting in the batch or under way: a marker left behind would
\* keep it from ever being asked again.
NoMarkerLeaks == batch.requested \subseteq ToSet(batch.pending) \cup taken

\* The replies carry no forum.  As long as none came after its 30 s, there is one request
\* besides those given up, for one forum, and the next reply clears its markers.
RepliesAttributed ==
  ~mixed => \A i \in DOMAIN requests : ~requests[i].late =>
    /\ requests[i].threads = taken /\ i = Len(requests)
    /\ \A t, u \in taken : Forum(t) = Forum(u)

\* "two forums enqueuing in the same event-loop turn must both be answered": a parked
\* thread is marked before it is let go, unless it is forgotten or already answered.
ParkedKept ==
  [][\A t \in ToSet(batch.overflow) \ ToSet(batch.overflow') :
       t \in batch'.requested \/ OnForget(t) \/ t \in counts']_forumVars

\* Every thread asked for, parked or not, is asked and released at last, whatever is lost
\* or denied.  The exception: forget() took the last thread of a batch whose flush was
\* scheduled, so that no later request schedules another.
Served == \A t \in Threads : (t \in Asked(batch)) ~> (t \notin Asked(batch) \/ jammed)

\* A marker stands for a request, and a reply in time is for its own.
MarkersTrue == ForumTypeOK /\ NoMarkerLeaks /\ RepliesAttributed

=============================================================================
