---------------------------- MODULE CurrentReads -----------------------------
(***************************************************************************)
(* What a dashboard promises, whether or not its answers are cached: a     *)
(* read is answered with changes that have been made, all of those among   *)
(* them that had settled when it began.                                    *)
(***************************************************************************)
CONSTANTS Reads, Changes

VARIABLES
  made,     (* the changes of the database                                  *)
  settled,  (* those of them that every later read has to show              *)
  reading,  (* each read: "idle", "pending", "answered" or "failed"         *)
  due,      (* what its answer has to show                                  *)
  answer    (* what it shows                                                *)

readVars == <<made, settled, reading, due, answer>>

ReadsInit ==
  /\ made = {}
  /\ settled = {}
  /\ reading = [r \in Reads |-> "idle"]
  /\ due = [r \in Reads |-> {}]
  /\ answer = [r \in Reads |-> {}]

Make(q) ==
  /\ made' = made \cup {q}
  /\ UNCHANGED <<settled, reading, due, answer>>

Settle(q) ==
  /\ q \in made
  /\ settled' = settled \cup {q}
  /\ UNCHANGED <<made, reading, due, answer>>

Begin(r) ==
  /\ reading[r] = "idle"
  /\ reading' = [reading EXCEPT ![r] = "pending"]
  /\ due' = [due EXCEPT ![r] = settled]
  /\ UNCHANGED <<made, settled, answer>>

Answer(r) ==
  /\ reading[r] = "pending"
  /\ reading' = [reading EXCEPT ![r] = "answered"]
  /\ \E shown \in SUBSET made :
       /\ due[r] \subseteq shown
       /\ answer' = [answer EXCEPT ![r] = shown]
  /\ UNCHANGED <<made, settled, due>>

GiveUp(r) ==
  /\ reading[r] = "pending"
  /\ reading' = [reading EXCEPT ![r] = "failed"]
  /\ UNCHANGED <<made, settled, due, answer>>

ReadsNext ==
  \/ \E q \in Changes : Make(q) \/ Settle(q)
  \/ \E r \in Reads : Begin(r) \/ Answer(r) \/ GiveUp(r)

ReadsSpec == ReadsInit /\ [][ReadsNext]_readVars
=============================================================================
