----------------------------- MODULE OrderedFeed -----------------------------
(***************************************************************************)
(* What the exporter promises, without its queue, timers and runs: an      *)
(* at-least-once feed.  Records are accepted one by one; any block of at   *)
(* most BatchSize consecutive records may be sent, again or for the first  *)
(* time, provided every record before the block has been delivered.  What  *)
(* has been sent arrives, now or later and perhaps more than once, or is   *)
(* lost.  A restart lets go of whatever has been accepted so far; what is  *)
(* on its way then may arrive all the same.                                *)
(***************************************************************************)
EXTENDS Integers

CONSTANTS BatchSize, MaxRecords

VARIABLES
  accepted,   (* how many records have been accepted                        *)
  forgotten,  (* the last record that was let go of                         *)
  sent,       (* the blocks on their way, as sets of records                *)
  delivered   (* the records that have arrived                              *)

feedVars == <<accepted, forgotten, sent, delivered>>

FeedInit == accepted = 0 /\ forgotten = 0 /\ sent = {} /\ delivered = {}

(* A record is accepted, and either kept or (export disabled) let go of.    *)
Accept ==
  /\ accepted < MaxRecords
  /\ accepted' = accepted + 1
  /\ forgotten' \in {forgotten, accepted + 1}
  /\ UNCHANGED <<sent, delivered>>

(* One batch leaves for the other side: the block first..last.              *)
Send ==
  \E first, last \in (forgotten + 1)..accepted :
    /\ first <= last /\ last < first + BatchSize
    /\ (forgotten + 1)..(first - 1) \subseteq delivered
    /\ sent' = sent \cup {first..last}
    /\ UNCHANGED <<accepted, forgotten, delivered>>

(* A block arrives; another copy of it may still be on its way.             *)
Arrive ==
  \E block \in sent :
    /\ delivered' = delivered \cup block
    /\ sent' \in {sent, sent \ {block}}
    /\ UNCHANGED <<accepted, forgotten>>

(* Blocks get lost.                                                         *)
Lose ==
  /\ sent' \in SUBSET sent
  /\ UNCHANGED <<accepted, forgotten, delivered>>

LetGo ==
  /\ forgotten' = accepted
  /\ sent' \in SUBSET sent
  /\ UNCHANGED <<accepted, delivered>>

FeedNext == Accept \/ Send \/ Arrive \/ Lose \/ LetGo

FeedSpec == FeedInit /\ [][FeedNext]_feedVars
=============================================================================
