----------------------------- MODULE AtChannel -----------------------------
(***************************************************************************)
(* What the AT command channel of script/new/lib/ril.lua promises to the   *)
(* modules above it: commands are executed one at a time, in the order in  *)
(* which they were requested; only a command that cannot be parsed is      *)
(* dropped; and a restart of the software forgets everything.              *)
(***************************************************************************)
EXTENDS Naturals, Sequences

CONSTANTS
    Boot,    \* the commands that the channel queues for itself at start-up
    Last     \* the largest ticket, tickets number the requests

VARIABLES
    queue,   \* tickets of the commands accepted and not yet issued
    current, \* the ticket of the command in execution, if there is one
    ticket   \* the ticket given to the latest request

vars == <<queue, current, ticket>>

Init ==
    /\ queue = Boot
    /\ current = <<>>
    /\ ticket = Len(Boot)

(* A request takes the next ticket. *)
Draw == ticket < Last /\ ticket' = ticket + 1

Accept == Draw /\ queue' = Append(queue, ticket') /\ UNCHANGED current

Reject == Draw /\ UNCHANGED <<queue, current>>

(* An idle channel executes the oldest command. *)
Issue ==
    /\ current = <<>> /\ queue # <<>>
    /\ current' = <<Head(queue)>> /\ queue' = Tail(queue)
    /\ UNCHANGED ticket

(* A request made of an idle, empty channel is issued at once. *)
AcceptAndIssue ==
    /\ current = <<>> /\ queue = <<>>
    /\ Draw
    /\ current' = <<ticket'>> /\ UNCHANGED queue

(* The command ends; the handler of its response may make a request. *)
Complete ==
    /\ current # <<>> /\ current' = <<>>
    /\ \/ UNCHANGED <<queue, ticket>>
       \/ Draw /\ queue' \in {queue, Append(queue, ticket')}

Restart == queue' = Boot /\ current' = <<>> /\ ticket' = Len(Boot)

Next ==
    Accept \/ Reject \/ Issue \/ AcceptAndIssue \/ Complete \/ Restart

Spec == Init /\ [][Next]_vars
============================================================================
