---------------------------- MODULE MCLifecycle -----------------------------
EXTENDS Lifecycle
\* MongoDB client and a Kafka client, the cleanup worker, the Reader, the
\* HTTP server, the outbox's Fetcher and, last, its schema.
MCComponents == {1, 2, 5, 7}

\* A local process, a pod as Kubernetes starts it, a pod whose manifest sets
\* ISKUBERNETES, and a process without APP_ENV.
MCEnvironments ==
    {Required, Required \cup {ServiceHost}, Required \cup {ServiceHost, "iskubernetes"},
     (Required \cup {ServiceHost}) \ {"app-env"}}

MCPod == {Required \cup {ServiceHost}}
=============================================================================
