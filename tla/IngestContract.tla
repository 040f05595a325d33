--------------------------- MODULE IngestContract ---------------------------
(***************************************************************************)
(* What POST /events promises its clients, without transactions, locks or  *)
(* quotas: a batch is stored whole or not at all and is acknowledged only  *)
(* when every one of its events is stored with exactly the content sent;   *)
(* stored content never changes; a conflict is answered only when there is *)
(* one.                                                                    *)
(***************************************************************************)
EXTENDS Naturals, Sequences

CONSTANTS Event, Request, Batch, NoContent, Refusals

VARIABLES
    content,    \* content of every stored event
    answer      \* answer to every request, "none" while it is open

contractVars == <<content, answer>>

Records(r) == {Batch[r][i] : i \in 1..Len(Batch[r])}

ContractInit ==
    /\ content = [e \in Event |-> NoContent]
    /\ answer = [r \in Request |-> "none"]

Acknowledge(r) ==
    /\ answer[r] = "none"
    /\ \A x \in Records(r) : content[x.event] \in {NoContent, x.content}
    /\ \A x, y \in Records(r) : x.event = y.event => x = y
    /\ content' = [e \in Event |->
          IF \E x \in Records(r) : x.event = e
          THEN (CHOOSE x \in Records(r) : x.event = e).content ELSE content[e]]
    /\ answer' = [answer EXCEPT ![r] = "acked"]

ReportConflict(r) ==
    /\ answer[r] = "none"
    /\ \/ \E x \in Records(r) : content[x.event] \notin {NoContent, x.content}
       \/ \E x, y \in Records(r) : x.event = y.event /\ x # y
    /\ answer' = [answer EXCEPT ![r] = "conflict"]
    /\ UNCHANGED content

Refuse(r, why) ==
    /\ answer[r] = "none"
    /\ answer' = [answer EXCEPT ![r] = why]
    /\ UNCHANGED content

AskAgain(r) ==
    /\ answer' = [answer EXCEPT ![r] = "none"]
    /\ UNCHANGED content

ContractNext ==
    \E r \in Request :
        \/ Acknowledge(r)
        \/ ReportConflict(r)
        \/ \E why \in Refusals : Refuse(r, why)
        \/ AskAgain(r)

ContractSpec == ContractInit /\ [][ContractNext]_contractVars
=============================================================================
