-------------------------------- MODULE Http --------------------------------
(***************************************************************************)
(* internal/server/http: the router, its middleware and the handlers, for  *)
(* one request after another.  Requests share the rate limiter and what    *)
(* clients keep, nothing else, so one at a time is enough.  A behaviour    *)
(* has traffic of one kind: uploads (Intake), reads, or reads under the    *)
(* limiter (RateLimit); the recorders and the recovery are around all.     *)
(***************************************************************************)
EXTENDS Intake, RateLimit

CONSTANTS
  BodyLen,     \* writes a stored image takes; the text of an error takes one
  Objects,     \* images in the storage, and the placeholder
  Untagged,    \* those the storage gives no ETag for
  UserKey, HostKey   \* the keys of limitKey: X-User-ID and the address

\* No validator, no object.
Absent == ""

ASSUME HttpAssumption ==
  /\ BodyLen \in Nat /\ BodyLen > 1 /\ Untagged \subseteq Objects
  /\ Clients = {UserKey, HostKey} /\ Forms # {} /\ {Absent, "*", "json", "page"} \cap Objects = {}

VARIABLES
  traffic,   \* "uploads", "reads" or "limited"
  hpc,       \* the next step of the request
  request,   \* its route, its If-None-Match and X-User-ID headers
  object,    \* what the storage opened for it
  w,         \* the response writer and the recorders around it
  panic,     \* what the handler panicked with
  logged,    \* the status in the request's log record
  measured,  \* the status in its metrics
  copies     \* what the client keeps, by ETag

http == <<hpc, request, object, w, panic, logged, measured, copies>>

vars == <<traffic, http, intake, limiter>>

Routes == {"service", "page", "json", "content", "upload"}

NoLength == -1

Recorder == [status : Nat, wrote : BOOLEAN]

\* A new recorder, and a new response.
NewRecorder == [status |-> 200, wrote |-> FALSE]

NewWriter ==
  [status |-> 0, length |-> NoLength, etag |-> Absent, cached |-> FALSE, body |-> <<>>,
   cut |-> FALSE, logging |-> NewRecorder, measuring |-> NewRecorder]

NewRequest == [route |-> "json", ifNoneMatch |-> {}, header |-> "none"]

Chunks == Objects \cup {"json", "page"}

Writer == [status : Nat, length : {NoLength, BodyLen}, etag : Objects \cup {Absent},
           cached : BOOLEAN, body : Seq(Chunks), cut : BOOLEAN,
           logging : Recorder, measuring : Recorder]

HttpTypeOK ==
  /\ traffic \in {"uploads", "reads", "limited"}
  /\ hpc \in {"idle", "limit", "handler", "headers", "copy", "return", "sent"}
  /\ request \in [route : Routes, ifNoneMatch : SUBSET (Objects \cup {"*"}), header : Owners]
  /\ object \in Objects \cup {Absent}
  /\ w \in Writer
  /\ panic \in {"nil", "panic", "abort"}
  /\ logged \in Seq(Nat) /\ measured \in Seq(Nat)
  /\ DOMAIN copies \subseteq Objects /\ \A e \in DOMAIN copies : copies[e] \in Seq(Chunks)

TypeOK == IntakeTypeOK /\ LimiterTypeOK /\ HttpTypeOK

Init ==
  /\ traffic \in {"uploads", "reads", "limited"}
  /\ hpc = "idle" /\ request = NewRequest /\ object = Absent /\ w = NewWriter
  /\ panic = "nil" /\ logged = <<>> /\ measured = <<>> /\ copies = [e \in {} |-> <<>>]
  /\ newLimiters /\ IntakeInit
  /\ IF traffic = "uploads" THEN form \in Forms ELSE form = CHOOSE f \in Forms : TRUE
-----------------------------------------------------------------------------
(* The response. *)

\* recorder.WriteHeader: the first status is kept and passed on.
Recorded(rec, s) == IF rec.wrote THEN rec ELSE [status |-> s, wrote |-> TRUE]

\* WriteHeader on the inner recorder, which is that of logging; net/http (external)
\* ignores all but the first.
WriteHeader(x, s) ==
  IF x.logging.wrote THEN x
  ELSE [x EXCEPT !.logging = Recorded(@, s), !.measuring = Recorded(@, s),
                 !.status = IF @ = 0 THEN s ELSE @]

\* recorder.Write and the Write of net/http: the status defaults to 200, and what is
\* beyond Content-Length is refused.
Write(x, chunk) ==
  [x EXCEPT !.logging.wrote = TRUE, !.measuring.wrote = TRUE,
            !.status = IF @ = 0 THEN 200 ELSE @,
            !.body = IF x.length # NoLength /\ Len(@) >= x.length THEN @ ELSE Append(@, chunk)]

writeJSON(x, s) == Write(WriteHeader(x, s), "json")

\* Handlers.render: the page was completed in a buffer before anything is written.
page(x, s) == Write(WriteHeader(x, s), "page")

\* The client takes a response for complete unless the connection broke: net/http
\* breaks it when the handler aborts or writes less than Content-Length.
Complete ==
  /\ ~w.cut /\ panic # "abort"
  /\ w.length # NoLength => Len(w.body) = w.length
-----------------------------------------------------------------------------
(* The way in: tracing, measuring, requestID, logging, recovering, limit, timeout. *)

Begin(route, inm, header) ==
  /\ hpc = "idle"
  /\ request' = [route |-> route, ifNoneMatch |-> inm, header |-> header]
  /\ w' = NewWriter /\ object' = Absent /\ panic' = "nil" /\ logged' = <<>> /\ measured' = <<>>

\* A request without the limiter on its way.
Serve ==
  /\ \/ traffic = "uploads" /\ pc = "idle" /\ Begin("upload", {}, form.header)
     \/ /\ traffic = "reads"
        /\ \E route \in Routes \ {"upload"} : \E inm \in (SUBSET DOMAIN copies) \cup {{"*"}} :
             (inm # {} => route = "content") /\ Begin(route, inm, "none")
  /\ hpc' = "handler" /\ UNCHANGED <<traffic, copies, intake, limiter>>

\* Routes under /api and /web pass the limiter first, when RATE_LIMIT_RPS is not 0.
\* Bound: clients with unusable headers send requests at will, one user sends one.
ServeLimited ==
  /\ traffic = "limited"
  /\ \E header \in {"fits", "long"} :
       /\ header = "fits" => admitted[UserKey] = <<>>
       /\ Begin("json", {}, header)
  /\ hpc' = "limit" /\ UNCHANGED <<traffic, copies, intake, limiter>>

\* A header that is too long for a user id is no key.
limitKey == IF request.header = "fits" THEN UserKey ELSE HostKey

\* Whether the bucket has a token for the request.
Allowed == Bucket(limitKey) >= Cost

rateLimiting ==
  /\ hpc = "limit" /\ allow(limitKey)
  /\ IF Allowed THEN hpc' = "handler" /\ UNCHANGED w
     ELSE hpc' = "return" /\ w' = writeJSON(w, 429)
  /\ UNCHANGED <<traffic, request, object, panic, logged, measured, copies, intake>>
-----------------------------------------------------------------------------
(* The handlers. *)

\* The handler returns, or panics, with the response as it is then.
Returns(x) == hpc' = "return" /\ w' = x /\ UNCHANGED panic

Panics(p) == hpc' = "return" /\ panic' = p /\ UNCHANGED w

Errors == (ReadErrors \cup ServiceErrors) \ {"panic"}

\* What is there is shown: avatarMetadata, userAvatars and the service paths.
Shows == Returns(writeJSON(w, 200))

\* What is deleted is answered without a body: deleteAvatar, deleteUserAvatar.
Deletes == Returns(WriteHeader(w, 204))

\* Under the limiter it does not matter what the handlers answer.
AnswerJSON ==
  /\ hpc = "handler" /\ request.route \in {"json", "service"}
  /\ \/ Shows
     \/ /\ traffic = "reads"
        /\ \/ Deletes
           \/ \E e \in Errors : Returns(writeJSON(w, mapError(e)))
           \/ Panics("panic")
  /\ UNCHANGED <<traffic, request, object, logged, measured, copies, intake, limiter>>

\* Pages; a template that fails is answered by http.Error.
AnswerPage ==
  /\ hpc = "handler" /\ request.route = "page"
  /\ \/ Returns(page(w, 200))
     \/ \E e \in ServiceErrors \ {"panic"} : Returns(page(w, describeError(e)))
     \/ Returns(Write(WriteHeader(w, 500), "page"))
     \/ Panics("panic")
  /\ UNCHANGED <<traffic, request, object, logged, measured, copies, intake, limiter>>

\* The steps of Intake, and the answer to what they come to.
AnswerUpload ==
  /\ hpc = "handler" /\ request.route = "upload"
  /\ \/ pc # "done" /\ upload /\ UNCHANGED <<hpc, w, panic>>
     \/ pc = "done" /\ err = "panic" /\ Panics("panic") /\ UNCHANGED intake
     \/ pc = "done" /\ err # "panic" /\ UNCHANGED intake
        /\ Returns(IF form.door = "api" THEN writeJSON(w, status) ELSE page(w, status))
  /\ UNCHANGED <<traffic, request, object, logged, measured, copies, limiter>>

\* AvatarContent and UserAvatarContent open an object or fail.
OpenContent ==
  /\ hpc = "handler" /\ request.route = "content"
  /\ \/ \E o \in Objects : object' = o /\ hpc' = "headers" /\ UNCHANGED <<w, panic>>
     \/ \E e \in Errors : Returns(writeJSON(w, mapError(e))) /\ UNCHANGED object
     \/ Panics("panic") /\ UNCHANGED object
  /\ UNCHANGED <<traffic, request, logged, measured, copies, intake, limiter>>

\* quoteETag: an object without a validator gets no header.
quoteETag(o) == IF o \in Untagged THEN Absent ELSE o

\* Mutant: any validator the client has will do.
matchETag_Any(ifNoneMatch, etag) == ifNoneMatch # {}

\* The list of If-None-Match against the validator of the response; "*" is any.
matchETag(ifNoneMatch, etag) == etag # Absent /\ ({etag, "*"} \cap ifNoneMatch # {})

\* writeContent up to the first byte.
WriteHeaders ==
  LET tagged == [w EXCEPT !.etag = quoteETag(object), !.cached = TRUE] IN
  /\ hpc = "headers"
  /\ \/ /\ matchETag(request.ifNoneMatch, quoteETag(object))
        /\ Returns(WriteHeader(tagged, 304))
     \/ /\ ~matchETag(request.ifNoneMatch, quoteETag(object))
        /\ hpc' = "copy" /\ w' = [tagged EXCEPT !.length = BodyLen] /\ UNCHANGED panic
  /\ UNCHANGED <<traffic, request, object, logged, measured, copies, intake, limiter>>

\* io.Copy: a read and a write, or the end of the image, of the storage's patience,
\* of the request's time or of the connection.
Copy ==
  /\ hpc = "copy"
  /\ \/ Len(w.body) < BodyLen /\ w' = Write(w, object) /\ UNCHANGED <<hpc, panic>>
     \/ Returns(w)
     \/ Returns([w EXCEPT !.cut = TRUE])
     \/ \E p \in {"panic", "abort"} : Panics(p)
  /\ UNCHANGED <<traffic, request, object, logged, measured, copies, intake, limiter>>
-----------------------------------------------------------------------------
(* The way out. *)

\* Mutant: the text of the error is written after what was sent already.
recovering_Always(o) ==
  IF o.panic = "panic" THEN [o EXCEPT !.panic = "nil", !.w = writeJSON(@, 500)] ELSE o

\* recovering: a response that has begun is left as it is; ErrAbortHandler goes on.
recovering(o) ==
  IF o.panic # "panic" THEN o
  ELSE [o EXCEPT !.panic = "nil", !.w = IF @.logging.wrote THEN @ ELSE writeJSON(@, 500)]

\* logging and measuring are skipped by a panic that comes to them.
logging(o) ==
  IF o.panic # "nil" THEN o ELSE [o EXCEPT !.logged = Append(@, o.w.logging.status)]

measuring(o) ==
  IF o.panic # "nil" \/ request.route = "service" THEN o
  ELSE [o EXCEPT !.measured = Append(@, o.w.measuring.status)]

\* Mutant: recovering is outside.
middleware_RecoveringOutside(o) == recovering(measuring(logging(o)))

\* The order in which New stacks them.
middleware(o) == measuring(logging(recovering(o)))

\* The middleware returns and net/http ends the response; a client keeps what it took
\* for complete, by its validator.
Finish ==
  LET o == middleware([w |-> w, panic |-> panic, logged |-> logged, measured |-> measured])
      sent == IF o.w.status = 0 /\ o.panic = "nil" THEN [o.w EXCEPT !.status = 200] ELSE o.w
  IN
  /\ hpc = "return" /\ hpc' = "sent"
  /\ w' = sent /\ panic' = o.panic /\ logged' = o.logged /\ measured' = o.measured
  /\ UNCHANGED <<traffic, request, object, copies, intake, limiter>>

\* What the client makes of it, and the next request.
Keep ==
  /\ hpc = "sent" /\ traffic # "uploads" /\ hpc' = "idle"
  /\ copies' = IF Complete /\ w.status = 200 /\ w.etag # Absent
               THEN [e \in DOMAIN copies \cup {w.etag} |-> IF e = w.etag THEN w.body ELSE copies[e]]
               ELSE copies
  /\ request' = NewRequest /\ object' = Absent /\ w' = NewWriter /\ panic' = "nil"
  /\ logged' = <<>> /\ measured' = <<>>
  /\ UNCHANGED <<traffic, intake, limiter>>

\* Time only matters to the limiter.
Pass == traffic = "limited" /\ hpc = "idle" /\ Tick /\ UNCHANGED <<traffic, http, intake>>

\* The worker comes to an upload after it was answered.
Render == hpc = "sent" /\ Process /\ UNCHANGED <<traffic, http, limiter>>

Next ==
  \/ Serve \/ ServeLimited \/ rateLimiting \/ AnswerJSON \/ AnswerPage \/ AnswerUpload
  \/ OpenContent \/ WriteHeaders \/ Copy \/ Finish \/ Keep \/ Pass \/ Render

Spec == Init /\ [][Next]_vars
-----------------------------------------------------------------------------
(* Properties. *)

\* The types, and the books are true: every request that was not aborted has one log
\* record and, off the service paths, one measurement, both with the status that was
\* sent, though handlers panic before or after they have begun to answer.
RecordedIsSent ==
  /\ TypeOK
  /\ hpc = "sent" /\ panic = "nil" =>
       /\ logged = <<w.status>>
       /\ measured = IF request.route = "service" THEN <<>> ELSE <<w.status>>

\* A client never takes a piece for the whole: an image the client believes complete
\* is all of one object, though the storage, the handler or the time failed in its
\* midst, and an error is never kept for as long as the image it stands for.
WholeOrSeen ==
  hpc = "sent" /\ Complete =>
    /\ w.length # NoLength /\ w.status = 200 => w.body = [i \in 1..BodyLen |-> object]
    /\ w.cached => w.status \in {200, 304}

\* 304 is answered only to a client that keeps the very image it would be sent, or
\* that asked for no image at all with "*".
NotModifiedIsTrue ==
  hpc = "sent" /\ w.status = 304 /\ "*" \notin request.ifNoneMatch =>
    /\ w.etag \in DOMAIN copies
    /\ copies[w.etag] = [i \in 1..BodyLen |-> object]
-----------------------------------------------------------------------------
(* What the properties rest on: the responses there are. *)

\* Until net/http ends the response, both recorders show its status, 200 before there is one.
RecordersSound ==
  /\ w.logging.status = IF w.status = 0 THEN 200 ELSE w.status
  /\ w.measuring.status = IF w.status = 0 THEN 200 ELSE w.status
  /\ w.logging.wrote <=> w.status # 0
  /\ w.measuring.wrote <=> w.status # 0
  /\ w.status = 0 => w.body = <<>>

\* No image: a text, or nothing yet.
Plain == w.length = NoLength /\ w.etag = Absent /\ ~w.cached /\ w.status # 304

NotModified ==
  /\ w.status = 304 /\ w.length = NoLength
  /\ w.etag = quoteETag(object) /\ matchETag(request.ifNoneMatch, w.etag)

\* An image, as far as it was copied.
Image ==
  /\ object \in Objects /\ w.length = BodyLen /\ w.etag = quoteETag(object)
  /\ w.status \in {0, 200} /\ Len(w.body) <= BodyLen /\ \A i \in DOMAIN w.body : w.body[i] = object

\* An image that broke before its first byte: the error is shorter than the length announced.
Spoiled == w.status = 500 /\ w.length = BodyLen /\ Len(w.body) = 1

ResponseSound ==
  /\ hpc # "sent" => RecordersSound
  /\ hpc \notin {"copy", "return", "sent"} => w = NewWriter
  /\ hpc = "headers" => object \in Objects
  /\ hpc = "copy" => Image
  /\ hpc \in {"return", "sent"} => Plain \/ NotModified \/ Image \/ (hpc = "sent" /\ Spoiled)
  /\ hpc \notin {"return", "sent"} => panic = "nil"
  /\ hpc # "sent" => logged = <<>> /\ measured = <<>>
  /\ hpc = "sent" => panic # "panic" /\ (panic = "nil" => w.status # 0)

\* What clients keep is whole, and what they ask for is what they keep.
CopiesSound ==
  /\ \A e \in DOMAIN copies : copies[e] = [i \in 1..BodyLen |-> e]
  /\ request.ifNoneMatch \subseteq DOMAIN copies \cup {"*"}

IInv == TypeOK /\ BucketsSound /\ IntakeSound /\ ResponseSound /\ CopiesSound /\ RecordedIsSent
=============================================================================
