------------------------------ MODULE Subscription ------------------------------
(***************************************************************************)
(* Driver.Subscribe: a goroutine forwards what go-redis receives for the   *)
(* subscription to a Go channel of 128 messages that the application       *)
(* reads, until go-redis closes its own channel, which Close makes it do.  *)
(* go-redis drops messages once its channel has been full for a while; such *)
(* messages are not part of the model.                                     *)
(***************************************************************************)
EXTENDS Integers, Sequences, SequencesExt

CONSTANTS
    Messages,       \* what the server sends
    OutputSize,     \* the capacity of the output channel (128)
    SourceSize      \* bound: the messages go-redis holds

ASSUME SubscriptionAssumption == OutputSize \in Nat \ {0} /\ SourceSize \in Nat \ {0}

VARIABLES
    stage,      \* of the subscription: "none", "failed", "open", "closed"
    connected,  \* go-redis holds a connection for it
    source,     \* go-redis's channel
    output,     \* the channel that Messages returns
    carried,    \* the message the forwarder has taken and not yet sent
    forwarder,  \* "none", "runs", "ended"; it closes output when it ends
    reader,     \* the application reads, has gone away, or has seen the end
    unread      \* history: what the server has sent and nobody has read

subscriptionVars == <<stage, connected, source, output, carried, forwarder, reader, unread>>

SubscriptionInit ==
    /\ stage = "none" /\ connected = FALSE
    /\ source = <<>> /\ output = <<>> /\ carried = <<>>
    /\ forwarder = "none"
    /\ reader = "reads"
    /\ unread = <<>>

\* Subscribe, when the Ping has been sent; its answer is not waited for.
Subscribe ==
    /\ stage = "none"
    /\ stage' = "open" /\ connected' = TRUE /\ forwarder' = "runs"
    /\ UNCHANGED <<source, output, carried, reader, unread>>

\* When connecting or sending fails, Subscribe returns the error: the caller gets
\* nothing that it could close, and the connection go-redis may have made stays.
SubscribeFails ==
    /\ stage = "none"
    /\ stage' = "failed"
    /\ connected' \in BOOLEAN
    /\ UNCHANGED <<source, output, carried, forwarder, reader, unread>>

ServerSends(m) ==
    /\ stage = "open" /\ Len(source) < SourceSize
    /\ source' = Append(source, m)
    /\ unread' = Append(unread, m)
    /\ UNCHANGED <<stage, connected, output, carried, forwarder, reader>>

\* The range loop takes the next message ...
TakeMessage ==
    /\ forwarder = "runs" /\ carried = <<>> /\ source # <<>>
    /\ carried' = <<Head(source)>>
    /\ source' = Tail(source)
    /\ UNCHANGED <<stage, connected, output, forwarder, reader, unread>>

\* Mutant of SendMessage: a full output is treated as in the mock backend.
SendMessageOrDrop ==
    /\ forwarder = "runs" /\ carried # <<>>
    /\ output' = IF Len(output) < OutputSize THEN output \o carried ELSE output
    /\ carried' = <<>>
    /\ UNCHANGED <<stage, connected, source, forwarder, reader, unread>>

\* ... and waits until there is room for it.
SendMessage ==
    /\ forwarder = "runs" /\ carried # <<>> /\ Len(output) < OutputSize
    /\ output' = output \o carried
    /\ carried' = <<>>
    /\ UNCHANGED <<stage, connected, source, forwarder, reader, unread>>

\* Mutant of EndForwarding: the loop goes on until the output has been read.
EndForwardingDrained ==
    /\ forwarder = "runs" /\ carried = <<>> /\ source = <<>> /\ output = <<>>
    /\ stage = "closed"
    /\ forwarder' = "ended"
    /\ UNCHANGED <<stage, connected, source, output, carried, reader, unread>>

\* The closed source is drained before the loop ends and output is closed.
EndForwarding ==
    /\ forwarder = "runs" /\ carried = <<>> /\ source = <<>>
    /\ stage = "closed"
    /\ forwarder' = "ended"
    /\ UNCHANGED <<stage, connected, source, output, carried, reader, unread>>

ReadMessage ==
    /\ reader = "reads" /\ output # <<>>
    /\ output' = Tail(output)
    /\ unread' = Tail(unread)
    /\ UNCHANGED <<stage, connected, source, carried, forwarder, reader>>

ReadEnd ==
    /\ reader = "reads" /\ output = <<>> /\ forwarder = "ended"
    /\ reader' = "saw_end"
    /\ UNCHANGED <<stage, connected, source, output, carried, forwarder, unread>>

\* The application stops reading, with or without having closed.
StopReading ==
    /\ reader = "reads"
    /\ reader' = "gone"
    /\ UNCHANGED <<stage, connected, source, output, carried, forwarder, unread>>

CloseSubscription ==
    /\ stage = "open"
    /\ stage' = "closed" /\ connected' = FALSE
    /\ UNCHANGED <<source, output, carried, forwarder, reader, unread>>

Forward == TakeMessage \/ SendMessage \/ EndForwarding

SubscriptionNext ==
    \/ Subscribe \/ SubscribeFails
    \/ \E m \in Messages : ServerSends(m)
    \/ Forward
    \/ ReadMessage \/ ReadEnd \/ StopReading
    \/ CloseSubscription

\* The forwarder runs whenever it can, and a reader that reads keeps reading.
SubscriptionFairness ==
    /\ WF_subscriptionVars(Forward)
    /\ WF_subscriptionVars(ReadMessage \/ ReadEnd)

SubscriptionSpec ==
    SubscriptionInit /\ [][SubscriptionNext]_subscriptionVars /\ SubscriptionFairness

-----------------------------------------------------------------------------
(* Properties.                                                             *)

\* The forwarder loses, repeats and reorders nothing: what has been sent and not
\* read is on its way, in the order in which it was sent.
ForwardsInOrder == output \o carried \o source = unread

\* Once the subscription is closed, the forwarder ends and the reader sees the end
\* of the channel; only a reader that goes away while the output is full leaves
\* the forwarder waiting for ever.
ForwarderEnds ==
    stage = "closed" ~>
        \/ forwarder = "ended" /\ reader # "reads"
        \/ reader = "gone" /\ Len(output) = OutputSize

=============================================================================
