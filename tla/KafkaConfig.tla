---------------------------- MODULE KafkaConfig ----------------------------
(***************************************************************************)
(* pkg/kafka/config: what becomes of a Kafka configuration between the     *)
(* file and the workers.  Load applies the defaults and then validates, so *)
(* that a consumer is validated with what it inherited.                    *)
(*                                                                         *)
(* Durations are in milliseconds.  A name is a sequence of words, the      *)
(* empty sequence for "", and a word " " for white space.                  *)
(***************************************************************************)
EXTENDS Integers, Sequences

\* What a consumer inherits from the global section when it leaves it out.
Settings == {"maxRetries", "initialBackoff", "maxBackoff", "processingTimeout",
             "channelBufferSize", "maxPollRecords"}

\* maxRetries is a pointer to an unsigned number: 0 is a value, nil is -1 here.
Values == {v \in [Settings -> Int] : v["maxRetries"] \in Nat \cup {-1}}

Unset == [s \in Settings |-> IF s = "maxRetries" THEN -1 ELSE 0]

Default == [maxRetries |-> 2, initialBackoff |-> 1000, maxBackoff |-> 30000,
            processingTimeout |-> 30000, channelBufferSize |-> 100, maxPollRecords |-> 500]

Lowest == [maxRetries |-> 0, initialBackoff |-> 100, maxBackoff |-> 1000,
           processingTimeout |-> 1000, channelBufferSize |-> 10, maxPollRecords |-> 1]

Highest == [maxRetries |-> 99, initialBackoff |-> 30000, maxBackoff |-> 300000,
            processingTimeout |-> 600000, channelBufferSize |-> 10000, maxPollRecords |-> 10000]

Names == Seq(STRING)

Consumers ==
    [name : Names, topic : Names, groupID : Names, autoOffsetReset : STRING,
     enableDLQ : BOOLEAN, dlqTopic : Names, readinessTimeout : Int, settings : Values]

Configs ==
    [brokers : Names,
     global : [groupID : Names, autoOffsetReset : STRING, settings : Values],
     consumers : Seq(Consumers),
     producer : [readinessTimeout : Int, linger : Int, compression : STRING,
                 deliveryTimeout : Int, maxBuffered : Int]]

Blank(name) == \A i \in DOMAIN name : name[i] = " "
-----------------------------------------------------------------------------
(* ApplyDefaults.                                                          *)

Or(given, unset, fallback) == IF given = unset THEN fallback ELSE given

Inherit(given, fallback) == [s \in Settings |-> Or(given[s], Unset[s], fallback[s])]

DLQTopicOf(c) ==
    IF c.enableDLQ THEN Or(c.dlqTopic, <<>>, Append(c.topic, ".dlq")) ELSE c.dlqTopic

ApplyConsumerDefaults(c, global) ==
    [c EXCEPT !.groupID = Or(@, <<>>, global.groupID),
              !.autoOffsetReset = Or(@, "", global.autoOffsetReset),
              !.dlqTopic = DLQTopicOf(c),
              !.readinessTimeout = Or(@, 0, 60),
              !.settings = Inherit(@, global.settings)]

ApplyGlobalDefaults(global) == [global EXCEPT !.settings = Inherit(@, Default)]

ApplyProducerDefaults(p) ==
    [p EXCEPT !.readinessTimeout = Or(@, 0, 30),
              !.linger = Or(@, 0, 5),
              !.compression = Or(@, "", "none"),
              !.deliveryTimeout = Or(@, 0, 30000),
              !.maxBuffered = Or(@, 0, 10000)]

ApplyDefaults(cfg) ==
    LET global == ApplyGlobalDefaults(cfg.global)
    IN [cfg EXCEPT !.global = global,
                   !.consumers = [i \in DOMAIN @ |-> ApplyConsumerDefaults(@[i], global)],
                   !.producer = ApplyProducerDefaults(@)]
-----------------------------------------------------------------------------
(* Validate.                                                               *)

\* Every check is skipped for a value that is not positive.
SettingsValid(v) ==
    /\ \A s \in Settings : v[s] > 0 => v[s] \in Lowest[s]..Highest[s]
    /\ v["maxBackoff"] > 0 => v["initialBackoff"] <= v["maxBackoff"]

ConsumerValid(c) ==
    /\ ~Blank(c.name)
    /\ ~Blank(c.topic)
    /\ c.autoOffsetReset \in {"", "earliest", "latest"}
    /\ c.readinessTimeout <= 600
    /\ SettingsValid(c.settings)
    /\ c.enableDLQ /\ ~Blank(c.dlqTopic) => c.dlqTopic # c.topic

ProducerValid(p) ==
    /\ p.readinessTimeout <= 600
    /\ p.linger <= 1000
    /\ p.compression \in {"", "none", "snappy", "lz4", "zstd"}
    /\ p.deliveryTimeout # 0 => p.deliveryTimeout \in 1000..300000
    /\ p.maxBuffered # 0 => p.maxBuffered \in 100..1000000

Valid(cfg) ==
    /\ ~Blank(cfg.brokers)
    /\ SettingsValid(cfg.global.settings)
    /\ \A i \in DOMAIN cfg.consumers : ConsumerValid(cfg.consumers[i])
    /\ ProducerValid(cfg.producer)

Accepted(raw) == Valid(ApplyDefaults(raw))
-----------------------------------------------------------------------------
(* The parts of a service that take their configuration from it.           *)

Registered(cfg, name) == {i \in DOMAIN cfg.consumers : cfg.consumers[i].name = name}

\* getConsumerConfig: the first of that name.
ConsumerConfig(cfg, name) ==
    cfg.consumers[CHOOSE i \in Registered(cfg, name) : \A j \in Registered(cfg, name) : i <= j]

\* A client without a group cannot commit marks: NewClient fails.
ClientStarts(c) == c.groupID # <<>>

\* Whatever is not "earliest" starts at the end, "" too.
StartsAtEnd(c) == c.autoOffsetReset # "earliest"

MessageChannelFits(c) == c.settings["channelBufferSize"] >= 0

\* The consumer runs, instead of the application failing to start.
ConsumerStarts(raw, name) ==
    LET cfg == ApplyDefaults(raw)
    IN /\ Valid(cfg)
       /\ Registered(cfg, name) # {}
       /\ ClientStarts(ConsumerConfig(cfg, name))
       /\ MessageChannelFits(ConsumerConfig(cfg, name))
=============================================================================
