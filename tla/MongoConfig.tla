---------------------------- MODULE MongoConfig ----------------------------
(***************************************************************************)
(* pkg/mongo/config.go and the places that derive a database from it: the  *)
(* client and its repositories, the runner that migrates one database and  *)
(* the runner that migrates one database for each tenant.                  *)
(*                                                                         *)
(* The name of a database is a sequence: <<>> for none, <<b>> for b and    *)
(* <<b, t>> for "b_t".  A connection string is a sequence of at most one   *)
(* record: whether url.Parse takes it, its server, its path.               *)
(***************************************************************************)
EXTENDS Integers, Sequences

NoName == <<>>
NoServer == "none"

Numbers == {"port", "maxPoolSize", "minPoolSize", "maxConnIdleTime", "connectTimeout",
            "serverSelectTimeout", "queryTimeout"}

Default == [port |-> 27017, maxPoolSize |-> 100, minPoolSize |-> 10,
            maxConnIdleTime |-> 300000, connectTimeout |-> 5000,
            serverSelectTimeout |-> 5000, queryTimeout |-> 10000]

ApplyDefaults(c) ==
    [c EXCEPT !.numbers = [n \in Numbers |-> IF @[n] = 0 THEN Default[n] ELSE @[n]],
              !.migrations = IF @ = NoName THEN <<"db", "migrations">> ELSE @]
-----------------------------------------------------------------------------
(* Validate.                                                               *)

Levels == {"local", "majority", "linearizable", "available", "snapshot"}
Modes == {"primary", "primaryPreferred", "secondary", "secondaryPreferred", "nearest"}

\* The number of a write concern, or "" and "majority" as -1 and -2.
NoConcern == -1
Majority == -2

Valid(c) ==
    /\ c.connection = <<>> =>
         c.host # NoServer /\ c.numbers["port"] # 0 /\ c.database # NoName
    /\ c.writeConcern \in Nat \cup {NoConcern, Majority}
    /\ c.readLevel \in Levels \cup {""}
    /\ c.readMode \in Modes \cup {""}

Accepted(raw) == Valid(ApplyDefaults(raw))
-----------------------------------------------------------------------------
(* What the driver is given.                                               *)

WithoutPath(s) == s.parses /\ s.path = NoName

\* A connection string that names a database, or cannot be parsed, is used as
\* it is.
BuildURI(c) ==
    IF c.connection = <<>> THEN [server |-> c.host, database |-> c.database]
    ELSE [server |-> c.connection[1].server,
          database |-> IF c.database # NoName /\ WithoutPath(c.connection[1])
                       THEN c.database ELSE c.connection[1].path]

\* One that cannot be parsed is left out: the host and port remain.
BuildBaseURI(c) ==
    [server |-> IF c.connection # <<>> /\ c.connection[1].parses
                THEN c.connection[1].server ELSE c.host,
     database |-> NoName]
-----------------------------------------------------------------------------
(* The databases.                                                          *)

\* provideDatabase: of the client's server, whatever its URI names.
Client(c) == BuildURI(c).server

StaticDatabase(c) == [server |-> Client(c), database |-> c.database]

\* MultiTenantCollectionProvider, and the cleaner of a deleted tenant.
TenantDatabase(c, slug) == [server |-> Client(c), database |-> Append(c.database, slug)]

\* SingleMigrationRunner.
SingleTarget(c) == BuildURI(c)

BaseTarget(c, slug) == BuildURI(c)                          \* mutant: the base database
\* TenantMigrationRunner.MigrateTenant sets the path of the base URI.
TenantTarget(c, slug) == [BuildBaseURI(c) EXCEPT !.database = Append(c.database, slug)]

\* golang-migrate refuses a URI without a database.
MigrationStarts(target) == target.database # NoName
=============================================================================
