----------------------------- MODULE EventFeed -----------------------------
(***************************************************************************)
(* What the event stream of a Run promises a client that keeps a timeline, *)
(* whatever happens to subscriptions, queues, connections and the daemon:  *)
(*                                                                         *)
(*   - an event is applied only after it committed, at most once, and in   *)
(*     the order of the durable sequence;                                  *)
(*   - the only committed events the timeline may pass over are those that *)
(*     nobody announced to the live subscribers.                           *)
(*                                                                         *)
(* RunEvents implements it: see RunEvents!Feed.                            *)
(***************************************************************************)
EXTENDS Naturals, Sequences

VARIABLES
    last,       \* the Run's event_sequences.last_sequence
    silent,     \* committed events that are never announced
    applied     \* the sequences the timeline has applied, oldest first

vars == <<last, silent, applied>>

Position == IF applied = <<>> THEN 0 ELSE applied[Len(applied)]

Init ==
    /\ last = 0
    /\ silent = {}
    /\ applied = <<>>

Commit ==
    /\ last' = last + 1
    /\ silent' \in {silent, silent \cup {last + 1}}
    /\ UNCHANGED applied

Apply(n) ==
    /\ n > Position
    /\ \A m \in Position + 1 .. n - 1 : m \in silent
    /\ applied' = Append(applied, n)
    /\ UNCHANGED <<last, silent>>

Next == Commit \/ \E n \in 1 .. last : Apply(n)

Spec == Init /\ [][Next]_vars
=============================================================================
