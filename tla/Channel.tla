------------------------------ MODULE Channel ------------------------------
(***************************************************************************)
(* The methodist channel of the profiles of v3 (methodist-tools.ts) over    *)
(* its store (methodist-store.ts): stages are handed in, and a later one    *)
(* only after the earlier one has its GO; a hand-in that is repeated is     *)
(* answered as before; what the methodist cannot settle becomes a ticket.   *)
(*                                                                          *)
(* A store has the checkpoints in the order of their insertion and the      *)
(* tickets; the hash of a hand-in is the hand-in itself.                    *)
(***************************************************************************)
EXTENDS Integers, Sequences, FiniteSets

Empty == [checkpoints |-> <<>>, tickets |-> <<>>]

(* A stage is a number or has a name, which is written with number 0. *)
Numbered(stage) == stage.name = ""

StageBefore(stage) == [stage EXCEPT !.number = @ - 1]

HasGo(store, credential, stage) ==
    \E i \in DOMAIN store.checkpoints :
        LET c == store.checkpoints[i]
        IN  c.handin.credential = credential /\ c.handin.stage = stage /\ c.go

(* At most one row has a hash: the index is unique. *)
FindByHandinHash(store, handin) ==
    {store.checkpoints[i] : i \in {j \in DOMAIN store.checkpoints : store.checkpoints[j].handin = handin}}

(* A token's owner is its credential, whatever the caller says. *)
CredentialOf(user, said) == IF user = "" THEN said ELSE user

(* ON CONFLICT DO NOTHING. *)
RecordCheckpoint(store, handin, response) ==
    IF FindByHandinHash(store, handin) # {} THEN store
    ELSE [store EXCEPT !.checkpoints = Append(@, [handin |-> handin, response |-> response, go |-> TRUE])]

Gated(store, handin) ==
    /\ Numbered(handin.stage) /\ handin.stage.number > 1
    /\ ~HasGo(store, handin.credential, StageBefore(handin.stage))

(* The next dose: the stage after a numbered one, and how its checkpoint is
   held; the path of writing is always gone through in full. *)
NextDose(stage, autonomy) ==
    [stage |-> [stage EXCEPT !.number = @ + 1],
     mode  |-> IF stage = [name |-> "", number |-> 7] \/ autonomy # "A2" THEN "full" ELSE "batch_note"]

Resolved(store, credential) ==
    {i \in DOMAIN store.tickets : store.tickets[i].credential = credential /\ store.tickets[i].resolution # ""}

(* The newest comes first. *)
LatestResolution(store, credential) ==
    IF Resolved(store, credential) = {} THEN ""
    ELSE store.tickets[CHOOSE i \in Resolved(store, credential) : \A j \in Resolved(store, credential) : j <= i].resolution

(* methodist_checkpoint, in the two steps between which another may come: what
   it has read of the store decides, and then it writes. *)
Checkpoint(read, store, handin, autonomy) ==
    IF Gated(read, handin) THEN [answer |-> "stage_gate", dose |-> <<>>, resolution |-> "", store |-> store]
    ELSE IF FindByHandinHash(read, handin) # {}
    THEN [answer |-> "repeat", dose |-> (CHOOSE c \in FindByHandinHash(read, handin) : TRUE).response,
          resolution |-> "", store |-> store]
    ELSE LET dose == NextDose(handin.stage, autonomy)
         IN  [answer |-> "go", dose |-> dose, resolution |-> LatestResolution(store, handin.credential),
              store |-> RecordCheckpoint(store, handin, dose)]

(* The ticket of an issue is named by its content: to raise it again opens no
   other, and answers how it stands. *)
Escalate(store, credential, issue) ==
    IF \E i \in DOMAIN store.tickets : store.tickets[i].credential = credential /\ store.tickets[i].issue = issue
    THEN store
    ELSE [store EXCEPT !.tickets = Append(@, [credential |-> credential, issue |-> issue, resolution |-> ""])]
=============================================================================
