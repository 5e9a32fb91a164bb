------------------------------ MODULE Consumer ------------------------------
(***************************************************************************)
(* The Kafka consumer of pkg/kafka/consumer on one partition.              *)
(*                                                                         *)
(* Every member of the consumer group runs three workers joined by two     *)
(* channels: the Reader polls records into messagesChan, the               *)
(* MessageDeserializer turns them into envelopes or sends them to the DLQ, *)
(* the Processor calls the handler with retries and gives the result to    *)
(* the ResultHandler, which marks the record for the client's autocommit.  *)
(* The group moves the partition between members at any time, members      *)
(* stop, crash and restart, and nothing drains a member's channels when    *)
(* its partition is taken away.                                            *)
(*                                                                         *)
(* Offsets start at 1; "committed" is the next offset to read, 0 before    *)
(* the first commit.                                                       *)
(***************************************************************************)
EXTENDS Integers, Sequences, FiniteSets, SequencesExt

CONSTANTS
    Members,            \* consumer processes of one group
    NoMember,           \* "nobody owns the partition"
    MaxRetries,         \* ConsumerConfig.MaxRetries
    ChannelBufferSize,  \* capacity of messagesChan and of the envelope channel
    MaxPollRecords,     \* ConsumerConfig.MaxPollRecords
    EnableDLQ,          \* FALSE: the no-op DLQ handler
    ResetPolicies,      \* values of AutoOffsetReset among the members
    MaxRecords,         \* bound: records produced
    RevokeBound,        \* bound: the partition is revoked while assigns is below it
    MaxStops            \* bound: stops and crashes

ASSUME ConsumerAssumption ==
    /\ NoMember \notin Members
    /\ MaxRetries \in Nat
    /\ ChannelBufferSize \in Nat \ {0} /\ MaxPollRecords \in Nat \ {0}
    /\ EnableDLQ \in BOOLEAN
    /\ ResetPolicies # {} /\ ResetPolicies \subseteq {"earliest", "latest"}
    /\ MaxRecords \in Nat /\ RevokeBound \in Nat /\ MaxStops \in Nat

VARIABLES
    \* Kafka
    log,        \* log[o]: whether record o can be deserialized
    committed,  \* the group's committed offset
    owner,      \* the member the partition is assigned to
    assigns,    \* assignments so far
    dlq,        \* offsets written to the DLQ topic
    \* the Kafka client of each member
    position,   \* position[p]: the next offset to fetch, 0 while not assigned
    head,       \* head[p]: the highest marked offset + 1, 0: no entry
    acked,      \* acked[p]: what of it is committed
    \* the workers of each member
    phase,      \* where the process is between start and exit
    batch,      \* batch[p]: polled records the Reader has not handed over
    messages,   \* messages[p]: messagesChan
    decoding,   \* decoding[p]: the record in deserializeAndSend
    envelopes,  \* envelopes[p]: the envelope channel
    handling,   \* handling[p]: the record in processMessage
    stage,      \* stage[p]: how far processMessage is with it
    tries,      \* tries[p]: failed attempts of it
    \* bounds and history
    stops,      \* stops and crashes so far
    handled,    \* offsets the handler accepted or skipped
    dropped,    \* offsets given up without a DLQ record
    jumped      \* offsets passed over by the offset reset

kafkaVars == <<log, committed, owner, assigns>>
clientVars == <<position, head, acked>>
procVars == <<handling, stage, tries>>
pipeVars == <<batch, messages, decoding, envelopes>>
historyVars == <<handled, dropped, jumped>>
vars == <<kafkaVars, dlq, clientVars, phase, pipeVars, procVars, stops, historyVars>>

\* The hooks run in the reverse order of their registration: the Processor is
\* cancelled and awaited first, then the deserializer, the Reader, the client.
Phases == {"running", "stopProcessor", "stopDeserializer", "stopReader", "closeClient", "down"}

Stages == {"idle", "trying", "dead", "mark"}

Bigger(a, b) == IF a > b THEN a ELSE b

Init ==
    /\ log = <<>>
    /\ committed = 0
    /\ owner = NoMember
    /\ assigns = 0
    /\ dlq = {}
    /\ position = [p \in Members |-> 0]
    /\ head = [p \in Members |-> 0]
    /\ acked = [p \in Members |-> 0]
    /\ phase = [p \in Members |-> "running"]
    /\ batch = [p \in Members |-> <<>>]
    /\ messages = [p \in Members |-> <<>>]
    /\ decoding = [p \in Members |-> <<>>]
    /\ envelopes = [p \in Members |-> <<>>]
    /\ handling = [p \in Members |-> <<>>]
    /\ stage = [p \in Members |-> "idle"]
    /\ tries = [p \in Members |-> 0]
    /\ stops = 0
    /\ handled = {} /\ dropped = {} /\ jumped = {}

\* Everything p has fetched and not finished, oldest first (decoding and
\* handling hold at most one record).
Pipe(p) == handling[p] \o envelopes[p] \o decoding[p] \o messages[p] \o batch[p]

ProcessorOn(p) == phase[p] \in {"running", "stopProcessor"}
DeserializerOn(p) == phase[p] \in {"running", "stopProcessor", "stopDeserializer"}
ReaderOn(p) == phase[p] \in {"running", "stopProcessor", "stopDeserializer"}
Joined(p) == phase[p] # "down"
-----------------------------------------------------------------------------
(* Kafka: the topic, the group and the client's autocommit.                *)

Produce(ok) ==
    /\ Len(log) < MaxRecords
    /\ log' = Append(log, ok)
    /\ UNCHANGED <<committed, owner, assigns, dlq, clientVars, phase, pipeVars, procVars,
                   stops, historyVars>>

\* Where a member starts that finds no committed offset.
ResetOffset(policy) == IF policy = "earliest" THEN 1 ELSE Len(log) + 1

StartAt(p, o) ==
    /\ owner' = p
    /\ assigns' = assigns + 1
    /\ position' = [position EXCEPT ![p] = o]
    /\ head' = [head EXCEPT ![p] = committed]
    /\ acked' = [acked EXCEPT ![p] = committed]

Assign(p) ==
    /\ owner = NoMember
    /\ Joined(p)
    /\ \/ /\ committed > 0
          /\ StartAt(p, committed)
          /\ UNCHANGED jumped
       \/ /\ committed = 0
          /\ \E policy \in ResetPolicies :
              /\ StartAt(p, ResetOffset(policy))
              /\ jumped' = jumped \cup 1..(ResetOffset(policy) - 1)
    /\ UNCHANGED <<log, committed, dlq, phase, pipeVars, procVars, stops, handled, dropped>>

\* The callback only logs: no commit, and p's channels keep their records.
Forget(p) ==
    /\ owner' = IF owner = p THEN NoMember ELSE owner
    /\ position' = [position EXCEPT ![p] = 0]
    /\ head' = [head EXCEPT ![p] = 0]
    /\ acked' = [acked EXCEPT ![p] = 0]

Revoke(p) ==
    /\ owner = p
    /\ assigns < RevokeBound
    /\ Forget(p)
    /\ UNCHANGED <<log, committed, assigns, dlq, phase, pipeVars, procVars, stops, historyVars>>

\* The group checks the member, not who owns the partition: a record marked
\* after a revocation is committed like any other.
AutoCommit(p) ==
    /\ Joined(p)
    /\ head[p] > acked[p]
    /\ committed' = head[p]
    /\ acked' = [acked EXCEPT ![p] = head[p]]
    /\ UNCHANGED <<log, owner, assigns, dlq, position, head, phase, pipeVars, procVars,
                   stops, historyVars>>
-----------------------------------------------------------------------------
(* The Reader.                                                             *)

NewestFirst(p, n) == [i \in 1..n |-> [off |-> position[p] + n - i, gen |-> assigns]]  \* mutant
Fetched(p, n) == [i \in 1..n |-> [off |-> position[p] + i - 1, gen |-> assigns]]

Poll(p) ==
    /\ ReaderOn(p)
    /\ batch[p] = <<>>
    /\ position[p] > 0
    /\ \E n \in 1..MaxPollRecords :
        /\ position[p] + n - 1 <= Len(log)
        /\ batch' = [batch EXCEPT ![p] = Fetched(p, n)]
        /\ position' = [position EXCEPT ![p] = @ + n]
    /\ UNCHANGED <<kafkaVars, dlq, head, acked, phase, messages, decoding, envelopes,
                   procVars, stops, historyVars>>

HandOverOrDrop(p) ==             \* mutant: a select with a default, nothing waits
    /\ ReaderOn(p)
    /\ batch[p] # <<>>
    /\ messages' = IF Len(messages[p]) < ChannelBufferSize
                   THEN [messages EXCEPT ![p] = Append(@, Head(batch[p]))] ELSE messages
    /\ batch' = [batch EXCEPT ![p] = Tail(@)]
    /\ UNCHANGED <<kafkaVars, dlq, clientVars, phase, decoding, envelopes, procVars,
                   stops, historyVars>>

\* "case r.messagesChan <- record".
ReaderHandOver(p) ==
    /\ ReaderOn(p)
    /\ batch[p] # <<>>
    /\ Len(messages[p]) < ChannelBufferSize
    /\ messages' = [messages EXCEPT ![p] = Append(@, Head(batch[p]))]
    /\ batch' = [batch EXCEPT ![p] = Tail(@)]
    /\ UNCHANGED <<kafkaVars, dlq, clientVars, phase, decoding, envelopes, procVars,
                   stops, historyVars>>
-----------------------------------------------------------------------------
(* The DLQ handlers, called by the deserializer and the ResultHandler.     *)

\* Produce and wait for its promise; a failure is logged, nothing is returned.
\* The no-op handler only logs.
SendToDLQ(o) ==
    \/ /\ EnableDLQ
       /\ dlq' = dlq \cup {o}
       /\ UNCHANGED dropped
    \/ /\ dropped' = dropped \cup {o}
       /\ UNCHANGED dlq

(* The MessageDeserializer.                                                *)

DeserializerTake(p) ==
    /\ DeserializerOn(p)
    /\ decoding[p] = <<>>
    /\ messages[p] # <<>>
    /\ decoding' = [decoding EXCEPT ![p] = <<Head(messages[p])>>]
    /\ messages' = [messages EXCEPT ![p] = Tail(@)]
    /\ UNCHANGED <<kafkaVars, dlq, clientVars, phase, batch, envelopes, procVars, stops,
                   historyVars>>

\* The record is not marked: only a later record's mark passes over it.
DeserializeFails(p) ==
    /\ decoding[p] # <<>>
    /\ ~log[decoding[p][1].off]
    /\ SendToDLQ(decoding[p][1].off)
    /\ decoding' = [decoding EXCEPT ![p] = <<>>]
    /\ UNCHANGED <<kafkaVars, clientVars, phase, batch, messages, envelopes, procVars, stops,
                   handled, jumped>>

DeserializerSend(p) ==
    /\ decoding[p] # <<>>
    /\ log[decoding[p][1].off]
    /\ Len(envelopes[p]) < ChannelBufferSize
    /\ envelopes' = [envelopes EXCEPT ![p] = @ \o decoding[p]]
    /\ decoding' = [decoding EXCEPT ![p] = <<>>]
    /\ UNCHANGED <<kafkaVars, dlq, clientVars, phase, batch, messages, procVars, stops,
                   historyVars>>
-----------------------------------------------------------------------------
(* The Processor and the ResultHandler.                                    *)

ProcessorTake(p) ==
    /\ ProcessorOn(p)
    /\ stage[p] = "idle"
    /\ envelopes[p] # <<>>
    /\ handling' = [handling EXCEPT ![p] = <<Head(envelopes[p])>>]
    /\ envelopes' = [envelopes EXCEPT ![p] = Tail(@)]
    /\ stage' = [stage EXCEPT ![p] = "trying"]
    /\ tries' = [tries EXCEPT ![p] = 0]
    /\ UNCHANGED <<kafkaVars, dlq, clientVars, phase, batch, messages, decoding, stops,
                   historyVars>>

NextOffset(p) == handling[p][1].off + 1                   \* mutant: the next record's
Current(p) == handling[p][1].off

\* The handler returns nil or ErrSkipMessage (the Router's answer for an event
\* nobody registered).
AttemptEnds(p) ==
    /\ stage[p] = "trying"
    /\ handled' = handled \cup {Current(p)}
    /\ stage' = [stage EXCEPT ![p] = "mark"]
    /\ UNCHANGED <<kafkaVars, dlq, clientVars, phase, pipeVars, handling, tries, stops,
                   dropped, jumped>>

\* Any other error waits for the next attempt, unless there is none left or the
\* Processor's context is cancelled; the attempt's own timeout is such an error.
AttemptRetried(p) ==
    /\ stage[p] = "trying"
    /\ phase[p] = "running"
    /\ tries[p] < MaxRetries
    /\ tries' = [tries EXCEPT ![p] = @ + 1]
    /\ UNCHANGED <<kafkaVars, dlq, clientVars, phase, pipeVars, handling, stage, stops,
                   historyVars>>

\* ErrPermanent or a panic, the last attempt, or a cancelled context, which
\* also ends the wait between two attempts.
AttemptFails(p) ==
    /\ stage[p] = "trying"
    /\ stage' = [stage EXCEPT ![p] = "dead"]
    /\ UNCHANGED <<kafkaVars, dlq, clientVars, phase, pipeVars, handling, tries, stops,
                   historyVars>>

HandleError(p) ==
    /\ stage[p] = "dead"
    /\ SendToDLQ(Current(p))
    /\ stage' = [stage EXCEPT ![p] = "mark"]
    /\ UNCHANGED <<kafkaVars, clientVars, phase, pipeVars, handling, tries, stops, handled,
                   jumped>>

MarkNext(p) == head' = [head EXCEPT ![p] = Bigger(@, Current(p) + 2)]  \* mutant
NeverMark(p) == head' = head                              \* mutant: the mark is forgotten

\* MarkCommitRecords, deferred: whatever the result was.
Mark(p) == head' = [head EXCEPT ![p] = Bigger(@, Current(p) + 1)]

HandleReturns(p) ==
    /\ stage[p] = "mark"
    /\ Mark(p)
    /\ handling' = [handling EXCEPT ![p] = <<>>]
    /\ stage' = [stage EXCEPT ![p] = "idle"]
    /\ UNCHANGED <<kafkaVars, dlq, position, acked, phase, pipeVars, tries, stops, historyVars>>
-----------------------------------------------------------------------------
(* Shutdown, crash and restart.                                            *)

BeginStop(p) ==
    /\ phase[p] = "running"
    /\ stops < MaxStops
    /\ stops' = stops + 1
    /\ phase' = [phase EXCEPT ![p] = "stopProcessor"]
    /\ UNCHANGED <<kafkaVars, dlq, clientVars, pipeVars, procVars, historyVars>>

ProcessorDrains(p) ==            \* mutant: what is left in the channel is marked
    /\ phase[p] = "stopProcessor"
    /\ stage[p] = "idle"
    /\ phase' = [phase EXCEPT ![p] = "stopDeserializer"]
    /\ head' = IF envelopes[p] = <<>> THEN head
               ELSE [head EXCEPT ![p] = Bigger(@, Last(envelopes[p]).off + 1)]
    /\ UNCHANGED <<kafkaVars, dlq, position, acked, pipeVars, procVars, stops, historyVars>>

\* Its envelopes stay unread in the channel.
ProcessorExit(p) ==
    /\ phase[p] = "stopProcessor"
    /\ stage[p] = "idle"
    /\ phase' = [phase EXCEPT ![p] = "stopDeserializer"]
    /\ UNCHANGED <<kafkaVars, dlq, clientVars, pipeVars, procVars, stops, historyVars>>

\* "case <-ctx.Done()" drops an envelope that did not fit.
DeserializerExit(p) ==
    /\ phase[p] = "stopDeserializer"
    /\ \A r \in Range(decoding[p]) : log[r.off]
    /\ decoding' = [decoding EXCEPT ![p] = <<>>]
    /\ phase' = [phase EXCEPT ![p] = "stopReader"]
    /\ UNCHANGED <<kafkaVars, dlq, clientVars, batch, messages, envelopes, procVars, stops,
                   historyVars>>

ReaderExit(p) ==
    /\ phase[p] = "stopReader"
    /\ batch' = [batch EXCEPT ![p] = <<>>]
    /\ phase' = [phase EXCEPT ![p] = "closeClient"]
    /\ UNCHANGED <<kafkaVars, dlq, clientVars, messages, decoding, envelopes, procVars, stops,
                   historyVars>>

\* The process is gone and with it its channels and marks; the group takes the
\* partition back, at once or when the session times out.
Die(p) ==
    /\ Forget(p)
    /\ phase' = [phase EXCEPT ![p] = "down"]
    /\ batch' = [batch EXCEPT ![p] = <<>>]
    /\ messages' = [messages EXCEPT ![p] = <<>>]
    /\ decoding' = [decoding EXCEPT ![p] = <<>>]
    /\ envelopes' = [envelopes EXCEPT ![p] = <<>>]
    /\ handling' = [handling EXCEPT ![p] = <<>>]
    /\ stage' = [stage EXCEPT ![p] = "idle"]
    /\ tries' = [tries EXCEPT ![p] = 0]
    /\ UNCHANGED <<log, committed, assigns, dlq, historyVars>>

ClientClose(p) ==
    /\ phase[p] = "closeClient"
    /\ Die(p)
    /\ UNCHANGED stops

Crash(p) ==
    /\ Joined(p)
    /\ stops < MaxStops
    /\ stops' = stops + 1
    /\ Die(p)

Restart(p) ==
    /\ phase[p] = "down"
    /\ phase' = [phase EXCEPT ![p] = "running"]
    /\ UNCHANGED <<kafkaVars, dlq, clientVars, pipeVars, procVars, stops, historyVars>>
-----------------------------------------------------------------------------
Reader(p) == Poll(p) \/ ReaderHandOver(p)
MessageDeserializer(p) == DeserializerTake(p) \/ DeserializeFails(p) \/ DeserializerSend(p)
Attempt(p) == AttemptEnds(p) \/ AttemptRetried(p) \/ AttemptFails(p)
Processor(p) == ProcessorTake(p) \/ Attempt(p) \/ HandleError(p) \/ HandleReturns(p)
Stop(p) == ProcessorExit(p) \/ DeserializerExit(p) \/ ReaderExit(p) \/ ClientClose(p)

Next ==
    \/ \E ok \in BOOLEAN : Produce(ok)
    \/ \E p \in Members :
           \/ Assign(p) \/ Revoke(p) \/ AutoCommit(p)
           \/ Reader(p) \/ MessageDeserializer(p) \/ Processor(p)
           \/ BeginStop(p) \/ Stop(p) \/ Crash(p) \/ Restart(p)

Spec == Init /\ [][Next]_vars

\* The workers keep running, the handler returns (its context times out), the
\* client commits every few seconds, the group assigns a free partition and a
\* stopped process is started again.
Fairness ==
    /\ WF_vars(\E p \in Members : Assign(p))
    /\ \A p \in Members :
        /\ WF_vars(AutoCommit(p))
        /\ WF_vars(Poll(p))
        /\ WF_vars(ReaderHandOver(p))
        /\ WF_vars(MessageDeserializer(p))
        /\ WF_vars(Processor(p))
        /\ WF_vars(Stop(p))
        /\ WF_vars(Restart(p))

FairSpec == Spec /\ Fairness
-----------------------------------------------------------------------------
Offsets == 1..Len(log)

\* A fetched record and the assignment it was fetched under.
Records == [off : Offsets, gen : 0..assigns]

\* Every variable has the shape the code gives it: what is in a channel has been
\* fetched from the partition, and nothing committed or marked is beyond its end.
TypeOK ==
    /\ log \in Seq(BOOLEAN)
    /\ committed \in 0..(Len(log) + 1)
    /\ owner \in Members \cup {NoMember}
    /\ assigns \in Nat
    /\ position \in [Members -> 0..(Len(log) + 1)]
    /\ head \in [Members -> 0..(Len(log) + 1)]
    /\ acked \in [Members -> 0..(Len(log) + 1)]
    /\ phase \in [Members -> Phases]
    /\ batch \in [Members -> Seq(Records)]
    /\ messages \in [Members -> Seq(Records)]
    /\ decoding \in [Members -> Seq(Records)]
    /\ envelopes \in [Members -> Seq(Records)]
    /\ handling \in [Members -> Seq(Records)]
    /\ stage \in [Members -> Stages]
    /\ tries \in [Members -> 0..MaxRetries]
    /\ stops \in 0..MaxStops
    /\ dlq \subseteq Offsets /\ handled \subseteq Offsets
    /\ dropped \subseteq Offsets /\ jumped \subseteq Offsets
    /\ \A p \in Members :
        /\ Len(handling[p]) = IF stage[p] = "idle" THEN 0 ELSE 1
        /\ Len(decoding[p]) <= 1

\* What was decided about a record, for good or ill.
Settled == handled \cup dlq \cup dropped \cup jumped

\* The records of one assignment go through the channels and reach the handler
\* in the order of their offsets, one at a time, retries included.
HandledInOrder ==
    \A p \in Members : \A i, j \in DOMAIN Pipe(p) :
        (i < j /\ Pipe(p)[i].gen = Pipe(p)[j].gen) => Pipe(p)[i].off < Pipe(p)[j].off

\* What the handler sees of it all.
Handled ==
    [p \in Members |-> IF stage[p] = "idle" THEN 0 ELSE Current(p)]

Promise == INSTANCE Delivery WITH handling <- Handled, settled <- Settled

\* Every behaviour of the channels, members and marks is one of the promise: a
\* record reaches a handler only when every earlier one has been decided about,
\* also when it was fetched under an older assignment and left behind in the
\* channels of a member that lost the partition and got it back.
DeliveryPromise == Promise!Spec

\* Every record is decided about in the end, through finitely many revocations,
\* stops and crashes, full channels, failing handlers and a failing DLQ.
EventuallySettled ==
    \A o \in 1..MaxRecords : (o \in Offsets) ~> (o \in Settled)

\* A record that can be decoded is committed in the end, so that the group does
\* not read it again at every restart.
EventuallyCommitted ==
    \A o \in 1..MaxRecords : (o \in Offsets /\ log[o]) ~> (committed > o)
=============================================================================
