------------------------------- MODULE Config -------------------------------
(***************************************************************************)
(* internal/config: the environment of a process, variable by variable,    *)
(* reduced to the classes of values the readers, the validation and the    *)
(* users of a value tell apart.                                            *)
(***************************************************************************)
EXTENDS Naturals, Sequences

Binaries == {"server", "worker", "migrator"}

\* The fields of the sections, by the variables they are read from.
Section ==
  [App |-> {"APP_ENV", "LOG_LEVEL", "LOG_FORMAT"},
   HTTP |-> {"HTTP_ADDR", "HTTP_READ_HEADER_TIMEOUT", "HTTP_READ_TIMEOUT",
             "HTTP_WRITE_TIMEOUT", "HTTP_IDLE_TIMEOUT", "HTTP_SHUTDOWN_TIMEOUT",
             "HTTP_REQUEST_TIMEOUT"},
   RateLimit |-> {"RATE_LIMIT_RPS", "RATE_LIMIT_BURST"},
   DB |-> {"DATABASE_DSN", "DB_MAX_CONNS", "DB_QUERY_TIMEOUT"},
   S3 |-> {"S3_ENDPOINT", "S3_ACCESS_KEY", "S3_SECRET_KEY", "S3_BUCKET", "S3_REGION",
           "S3_USE_SSL", "S3_TIMEOUT"},
   AMQP |-> {"AMQP_URL", "AMQP_PREFETCH", "AMQP_TIMEOUT"},
   Otel |-> {"OTEL_EXPORTER_OTLP_ENDPOINT", "OTEL_EXPORTER_OTLP_INSECURE",
             "OTEL_TRACES_SAMPLE_RATIO"},
   Image |-> {"IMAGE_MAX_UPLOAD_BYTES", "IMAGE_MAX_PIXELS", "IMAGE_JPEG_QUALITY"},
   Worker |-> {"WORKER_PROCESS_TIMEOUT", "WORKER_RECONCILE_INTERVAL", "WORKER_STUCK_AFTER",
               "WORKER_RECONCILE_BATCH", "WORKER_DECODE_CONCURRENCY", "WORKER_METRICS_ADDR",
               "WORKER_SHUTDOWN_TIMEOUT"}]

Sections == DOMAIN Section

Variables == UNION {Section[s] : s \in Sections}

\* What has no default.
Secrets == {"DATABASE_DSN", "S3_ENDPOINT", "S3_ACCESS_KEY", "S3_SECRET_KEY", "AMQP_URL"}

\* reader.str, reader.float, reader.boolean and the two named values; the rest are
\* integers and durations.
Strings == Secrets \cup {"APP_ENV", "HTTP_ADDR", "S3_BUCKET", "S3_REGION",
                         "OTEL_EXPORTER_OTLP_ENDPOINT", "WORKER_METRICS_ADDR"}

Floats == {"RATE_LIMIT_RPS", "OTEL_TRACES_SAMPLE_RATIO"}

Named == {"LOG_LEVEL", "LOG_FORMAT", "S3_USE_SSL", "OTEL_EXPORTER_OTLP_INSECURE"}

Classes == {"malformed", "empty", "other", "nan", "negative", "zero", "ok", "wide"}

\* A value as it stands in the environment.  wide: a ratio over 1, a quality over 100, a
\* pool over 32 bits, a prefetch over 16; of other numbers, the largest of their type.
Values(v) ==
  CASE v \in Strings -> {"empty", "ok"} \cup (IF v = "APP_ENV" THEN {"other"} ELSE {})
    [] v \in Named -> {"malformed", "ok"}
    [] v \in Floats -> {"malformed", "nan", "negative", "zero", "ok", "wide"}
    [] OTHER -> {"malformed", "negative", "zero", "ok", "wide"}

\* The value of a variable that is not declared.
Default(v) ==
  CASE v \in Secrets \cup {"OTEL_EXPORTER_OTLP_ENDPOINT"} -> "empty"
    [] v \in Section.RateLimit -> "zero"
    [] OTHER -> "ok"

\* The values a process finds: the defaults and the secrets, changed in a few variables.
Usual == [v \in Variables |-> IF v \in Secrets THEN "ok" ELSE Default(v)]
-----------------------------------------------------------------------------
\* load parses every section; the errors are joined.
Parses(env) == \A v \in Variables : env[v] # "malformed"

\* required, positive, positiveDuration, and the checks of ranges: but for a ratio and
\* the quality there is no upper bound.
Valid(v, x) ==
  CASE v = "APP_ENV" -> x \notin {"empty", "other"}
    [] v = "OTEL_EXPORTER_OTLP_ENDPOINT" -> TRUE
    [] v \in Strings \ {"APP_ENV", "OTEL_EXPORTER_OTLP_ENDPOINT"} -> x # "empty"
    [] v \in Named -> TRUE
    [] v = "RATE_LIMIT_RPS" -> x \notin {"nan", "negative"}
    [] v = "RATE_LIMIT_BURST" -> x # "negative"
    [] v = "OTEL_TRACES_SAMPLE_RATIO" -> x \notin {"nan", "negative", "wide"}
    [] v = "IMAGE_JPEG_QUALITY" -> x \notin {"negative", "zero", "wide"}
    [] OTHER -> x \notin {"negative", "zero"}

\* The sections LoadServer, LoadWorker and LoadMigrator validate.
Validated(b) ==
  CASE b = "server" -> Sections \ {"Worker"}
    [] b = "worker" -> Sections \ {"HTTP", "RateLimit"}
    [] b = "migrator" -> {"App", "DB"}

\* Mutant: a number that cannot be compared passes.
Accepts_NaN(b, env) ==
  Parses(env) /\ \A s \in Validated(b) : \A v \in Section[s] : Valid(v, env[v]) \/ env[v] = "nan"

Accepts(b, env) ==
  Parses(env) /\ \A s \in Validated(b) : \A v \in Section[s] : Valid(v, env[v])
-----------------------------------------------------------------------------
\* The variables the three binaries use.
Uses(b) ==
  CASE b = "server" -> UNION {Section[s] : s \in Sections \ {"Worker"}}
                         \ {"AMQP_PREFETCH", "IMAGE_JPEG_QUALITY"}
    [] b = "worker" -> UNION {Section[s] : s \in Sections \ {"HTTP", "RateLimit"}}
    [] b = "migrator" -> Section.App \cup {"DATABASE_DSN", "DB_QUERY_TIMEOUT"}

\* What does not fit where it is used, though no check bounds it: Qos keeps 16 bits of
\* the prefetch, uploading adds to the size of an upload and the two timeouts to each other.
Overflows(b) ==
  CASE b = "server" -> {"IMAGE_MAX_UPLOAD_BYTES", "HTTP_READ_TIMEOUT", "HTTP_WRITE_TIMEOUT"}
    [] b = "worker" -> {"AMQP_PREFETCH"}
    [] b = "migrator" -> {}

\* What has an upper bound: in validate, or where postgres.New narrows the number.
Bounded == {"OTEL_TRACES_SAMPLE_RATIO", "IMAGE_JPEG_QUALITY", "DB_MAX_CONNS"}

\* What works where binary b uses a value: tickers, deadlines, limits and batches are
\* positive, names and addresses not empty, no limit is a limit of 0 and no collector an
\* empty name.  The largest number is one where it is only compared or counted down.
Usable(b, v, x) ==
  \/ x = "ok"
  \/ x = "zero" /\ v \in Floats \cup {"RATE_LIMIT_BURST"}
  \/ x = "wide" /\ v \notin Bounded \cup Overflows(b)
  \/ x = "empty" /\ v = "OTEL_EXPORTER_OTLP_ENDPOINT"
=============================================================================
