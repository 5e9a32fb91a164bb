----------------------------- MODULE MCPipeline -----------------------------
EXTENDS Pipeline
CONSTANTS t1, t2

NoSettings == Kafka!Unset
Retries(n) == [NoSettings EXCEPT !["maxRetries"] = n]

Projector == [name |-> <<"projector">>, topic |-> <<"products">>, groupID |-> <<>>,
              autoOffsetReset |-> "earliest", enableDLQ |-> TRUE, dlqTopic |-> <<>>,
              readinessTimeout |-> 0, settings |-> Retries(1)]

KafkaOf(consumer) ==
    [brokers |-> <<"kafka">>,
     global |-> [groupID |-> <<"views">>, autoOffsetReset |-> "", settings |-> NoSettings],
     consumers |-> <<consumer>>,
     producer |-> [readinessTimeout |-> 0, linger |-> 0, compression |-> "", deliveryTimeout |-> 0,
                   maxBuffered |-> 0]]

NumbersUnset == [n \in Mongo!Numbers |-> 0]

MongoOf(connection, host, database) ==
    [connection |-> connection, host |-> host, database |-> database, numbers |-> NumbersUnset,
     migrations |-> <<>>, writeConcern |-> Mongo!NoConcern, readLevel |-> "", readMode |-> ""]

Host == MongoOf(<<>>, "h", <<"shop">>)
Atlas(path) == MongoOf(<<[parses |-> TRUE, server |-> "atlas", path |-> path]>>, "none", <<"shop">>)

Service(tenancy, keys, scopes) ==
    [tenancy |-> tenancy, jwks |-> [enabled |-> "unset", keys |-> keys],
     credentials |-> [enabled |-> "unset", scopes |-> scopes,
                      keys |-> IF scopes = {} THEN {} ELSE CredentialKeys]]

Everywhere == {CrossTenant, "write"}
Guarded == Service(TRUE, JwksKeys, Everywhere)
Open == Service(TRUE, {}, Everywhere)
Half == Service(TRUE, {"issuer"}, Everywhere)
Unscoped == [Guarded EXCEPT !.credentials.scopes = {}]
Plain == Service(FALSE, {}, {})

System(front, back, consumer, mongo) ==
    [front |-> front, back |-> back, kafka |-> KafkaOf(consumer), mongo |-> mongo]

\* Two guarded services with a database per tenant; an open front service and a
\* consumer that starts at the end and does not retry; a front service whose
\* scopes are left out; no tenancy, with the database in the connection string.
\* The last three do not start: half a JWKS section, a DLQ that is the topic, a
\* connection string without database.
MCSystems ==
    {System(Guarded, Guarded, Projector, Host),
     System(Open, Guarded,
            [Projector EXCEPT !.autoOffsetReset = "latest", !.settings = Retries(0)],
            Atlas(<<"other">>)),
     System(Unscoped, Guarded, Projector, Host),
     System(Plain, Plain, Projector, Atlas(<<"shop">>)),
     System(Half, Guarded, Projector, Host),
     System(Guarded, Guarded, [Projector EXCEPT !.dlqTopic = Projector.topic], Host),
     System(Plain, Plain, Projector, [Atlas(<<>>) EXCEPT !.database = <<>>])}

Token(tenant, scopes) == [valid |-> TRUE, tenant |-> tenant, scopes |-> scopes]

\* A tenant's editor, one who may not write, an account without tenant and
\* without the right to all of them.
MCCallers == {Token(t1, {"openid", "write"}), Token(t1, {"openid"}), Token(NoTenant, {"write"})}
MCTenants == {t1, t2}
MCName == <<"projector">>
=============================================================================
