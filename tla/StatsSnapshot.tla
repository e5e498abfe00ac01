---------------------------- MODULE StatsSnapshot ----------------------------
(***************************************************************************)
(* src/stats.rs between the two threads of transport/udp.rs: the receive   *)
(* thread bumps the counters one at a time, the owner of the client loads  *)
(* them one at a time, every access is Relaxed.                            *)
(*                                                                         *)
(* A Relaxed load returns any value the counter has had, but none older    *)
(* than the newest the owner has seen: by loading it before, or by taking  *)
(* an update pushed after it was written, or by joining the thread.  The   *)
(* loads of one snapshot fall anywhere in time; nothing is lost by making  *)
(* them all at its end, when the choice is largest.                        *)
(***************************************************************************)
EXTENDS Integers, Sequences, FiniteSetsExt

CONSTANTS Capacity,     \* of the ring
          MaxDatagrams  \* bound on the datagrams received

ASSUME SnapshotAssumption == /\ Capacity \in Nat \ {0}
                             /\ MaxDatagrams \in Nat

VARIABLES thread,  \* where the receive thread is
          count,   \* the counters as last written
          ring,    \* updates queued, each with what its push publishes
          owner,   \* whether close has been called, and has returned
          seen,    \* the oldest value the owner may still load of each counter
          newest,  \* history: the latest update taken
          takes    \* history: how many were taken

vars == <<thread, count, ring, owner, seen, newest, takes>>
ownerVars == <<owner, seen, newest, takes>>

\* The counters the receive thread writes.  `bytes` is bumped with datagrams,
\* and a slot stands for the update it came with, numbered from 1.
Counters == {"datagrams", "messages", "last_slot", "decode_errors",
             "skipped_msg_type", "queue_dropped"}

Zero == [c \in Counters |-> 0]
Newer(a, b) == [c \in Counters |-> Max({a[c], b[c]})]

\* What stats.snapshot() may return now.
Snapshots ==
  {[datagrams |-> d, messages |-> m, last_slot |-> l, decode_errors |-> e,
    skipped_msg_type |-> k, queue_dropped |-> q] :
     d \in seen["datagrams"] .. count["datagrams"],
     m \in seen["messages"] .. count["messages"],
     l \in seen["last_slot"] .. count["last_slot"],
     e \in seen["decode_errors"] .. count["decode_errors"],
     k \in seen["skipped_msg_type"] .. count["skipped_msg_type"],
     q \in seen["queue_dropped"] .. count["queue_dropped"]}

Init == /\ thread = "recv"
        /\ count = Zero
        /\ ring = <<>>
        /\ owner = "open"
        /\ seen = Zero
        /\ newest = 0
        /\ takes = 0

-----------------------------------------------------------------------------
(* The receive thread: the bumps of push and complete, and of the loop.    *)

Bump(from, counter, to) ==
  /\ thread = from
  /\ count' = [count EXCEPT ![counter] = @ + 1]
  /\ thread' = to
  /\ UNCHANGED <<ring, ownerVars>>

Recv == /\ count["datagrams"] < MaxDatagrams
        /\ Bump("recv", "datagrams", "outcome")

Reject == Bump("outcome", "decode_errors", "recv")
SkipType == Bump("outcome", "skipped_msg_type", "recv")

\* A fragment of an unfinished message.
Hold == /\ thread = "outcome"
        /\ thread' = "recv"
        /\ UNCHANGED <<count, ring, ownerVars>>

CountMessage == Bump("outcome", "messages", "slot")

\* last_slot.store
StoreSlot ==
  /\ thread = "slot"
  /\ count' = [count EXCEPT !["last_slot"] = count["messages"]]
  /\ thread' = "push"
  /\ UNCHANGED <<ring, ownerVars>>

Entry == [update |-> count["messages"], published |-> count]

\* Mutant of ForcePush: the queue hands over the update and nothing else.
ForcePushRelaxed ==
  /\ thread = "push"
  /\ LET full == Len(ring) = Capacity
         entry == [update |-> count["messages"], published |-> Zero]
     IN  /\ ring' = Append(IF full THEN Tail(ring) ELSE ring, entry)
         /\ thread' = IF full THEN "drop" ELSE "recv"
  /\ UNCHANGED <<count, ownerVars>>

\* Mutant of ForcePush: the queue grows.
ForcePushUnbounded ==
  /\ thread = "push"
  /\ ring' = Append(ring, Entry)
  /\ thread' = "recv"
  /\ UNCHANGED <<count, ownerVars>>

\* ring.force_push: who pops the entry sees what was written before.
ForcePush ==
  /\ thread = "push"
  /\ LET full == Len(ring) = Capacity
     IN  /\ ring' = Append(IF full THEN Tail(ring) ELSE ring, Entry)
         /\ thread' = IF full THEN "drop" ELSE "recv"
  /\ UNCHANGED <<count, ownerVars>>

CountDropped == Bump("drop", "queue_dropped", "recv")

\* The flag is seen, or the socket fails.
End == /\ thread = "recv"
       /\ thread' = "done"
       /\ UNCHANGED <<count, ring, ownerVars>>

ThreadStep == \/ Recv \/ Reject \/ SkipType \/ Hold
              \/ CountMessage \/ StoreSlot
              \/ ForcePush \/ CountDropped \/ End

-----------------------------------------------------------------------------
(* The owner of the client: it alone can call it, UdpClient is not Sync.   *)

\* next_update, try_next_update or the Stream returns an update.
Take ==
  /\ owner # "joining"
  /\ ring # <<>>
  /\ ring' = Tail(ring)
  /\ seen' = Newer(seen, Head(ring).published)
  /\ newest' = Head(ring).update
  /\ takes' = takes + 1
  /\ UNCHANGED <<thread, count, owner>>

Snapshot ==
  /\ owner # "joining"
  /\ seen' \in Snapshots
  /\ UNCHANGED <<thread, count, ring, owner, newest, takes>>

Close == /\ owner = "open"
         /\ owner' = "joining"
         /\ UNCHANGED <<thread, count, ring, seen, newest, takes>>

\* Mutant of Join: close does not wait for the thread.
JoinNot == /\ owner = "joining"
           /\ owner' = "closed"
           /\ UNCHANGED <<thread, count, ring, seen, newest, takes>>

Join == /\ owner = "joining"
        /\ thread = "done"
        /\ owner' = "closed"
        /\ seen' = count
        /\ UNCHANGED <<thread, count, ring, newest, takes>>

Next == ThreadStep \/ Take \/ Snapshot \/ Close \/ Join

Spec == Init /\ [][Next]_vars

-----------------------------------------------------------------------------
\* Type invariant; what the owner may load is never newer than what is there.
TypeOK ==
  /\ thread \in {"recv", "outcome", "slot", "push", "drop", "done"}
  /\ count \in [Counters -> 0..MaxDatagrams]
  /\ ring \in Seq([update : 1..MaxDatagrams, published : [Counters -> 0..MaxDatagrams]])
  /\ Len(ring) <= Capacity
  /\ owner \in {"open", "joining", "closed"}
  /\ seen \in [Counters -> 0..MaxDatagrams]
  /\ \A c \in Counters : seen[c] <= count[c]
  /\ newest \in 0..MaxDatagrams
  /\ takes \in 0..MaxDatagrams

\* A snapshot covers the updates its caller already has, although nothing but
\* the queue orders the counters: the update is counted, its slot stored and
\* its datagram received (frame.rs:130, 201-204 before udp.rs:122).
CoversTaken ==
  \A s \in Snapshots : newest <= Min({s.datagrams, s.messages, s.last_slot})

\* Once close has returned a snapshot is exact and its counters agree: every
\* update decoded was taken, overwritten or is still queued, and no datagram
\* has two outcomes (udp.rs:174-179; api.md:404-419).  Before that they need
\* not: a snapshot may count more overwritten updates than updates.
ExactAfterClose ==
  owner = "closed" => \A s \in Snapshots :
    /\ s.messages = takes + Len(ring) + s.queue_dropped
    /\ s.last_slot = s.messages
    /\ s.messages + s.decode_errors + s.skipped_msg_type <= s.datagrams
=============================================================================
