------------------------------- MODULE Intake -------------------------------
(***************************************************************************)
(* The two doors an upload comes through, POST /api/v1/avatars             *)
(* (internal/server/http) and POST /web/upload (internal/server/web): one  *)
(* request after another is parsed, checked and given to Service.Upload,   *)
(* whose own steps Lifecycle models.  Handlers of different requests share *)
(* nothing before the service, so one request at a time is enough.         *)
(***************************************************************************)
EXTENDS Imageproc, FiniteSets

CONSTANTS
  Forms,    \* the requests that may come
  MayFail   \* whether files, dependencies and deadlines may fail

Doors == {"api", "web"}

Fields == {"file", "image"}

Parts == [size : {"fits", "large"}, name : {"fits", "long"}, image : Images]

Owners == {"none", "fits", "long"}

\* A request: X-User-ID, the query string, the body as MaxBytesReader delivers it, the
\* user_id field, the files by their fields, and whether one of them is over
\* maxMultipartMemory.
Requests(fs) == [door : Doors, header : Owners, query : {"good", "bad"},
                 body : {"form", "malformed", "oversize"}, user : Owners,
                 parts : [fs -> Parts], spilt : BOOLEAN]

FormErrors == {"errMissingUserID", "errUserIDTooLong", "errMissingFile",
               "errMalformedBody", "errFileNameTooLong", "ErrTooLarge"}

ImageErrors == {"ErrUnsupportedFormat", "ErrImageTooBig"}

\* What Service.Upload returns of its dependencies; panic: what recovering catches.
ServiceErrors == {"ErrInvalidTransition", "ErrUnavailable", "DeadlineExceeded",
                  "internal", "panic"}

ASSUME IntakeAssumption ==
  /\ MaxPixels \in Nat \ {0} /\ HeadLen \in Nat \ {0} /\ HeaderLen \in Nat \ {0}
  /\ MayFail \in BOOLEAN
  /\ \A f \in Forms : \E fs \in SUBSET Fields : f \in Requests(fs)

VARIABLES
  pc,       \* the next step of the handler
  form,     \* the request
  err,      \* the error the handler goes back with
  owner,    \* where the user id was taken from
  field,    \* the form field the file was taken from
  pos,      \* the position of the opened file
  temp,     \* whether a temporary file of the form is on the disk
  open,     \* whether the file is open
  defers,   \* the deferred calls
  stored,   \* the blocks of the object Service.Upload stored
  faulty,   \* whether a file or a dependency has failed the request
  status,   \* the status of the response
  render    \* what the worker made of the stored object

handling == <<form, err, owner, field, pos, temp, open, defers, stored, faulty, status, render>>

intake == <<pc, handling>>

PCs == {"idle", "requesterID", "parse", "trusted", "formFile", "limits", "upload",
        "return", "done"}

IntakeTypeOK ==
  /\ pc \in PCs
  /\ form \in Forms
  /\ err \in {"nil"} \cup FormErrors \cup ImageErrors \cup ServiceErrors
  /\ owner \in {"none", "header", "user"}
  /\ field \in Fields \cup {"none"}
  /\ pos \in Nat
  /\ temp \in BOOLEAN /\ open \in BOOLEAN /\ faulty \in BOOLEAN
  /\ open => pc \in {"limits", "upload", "return"}
  /\ defers \subseteq {"close", "remove"}
  /\ stored \in Seq(Nat)
  /\ status \in {0, 201, 303, 400, 409, 413, 500, 503, 504}
  /\ render \in {"none", "nil"} \cup ImageErrors

IntakeInit ==
  /\ pc = "idle"
  /\ err = "nil" /\ owner = "none" /\ field = "none" /\ pos = 0
  /\ temp = FALSE /\ open = FALSE /\ defers = {} /\ stored = <<>>
  /\ faulty = FALSE /\ status = 0 /\ render = "none"
-----------------------------------------------------------------------------
Part == form.parts[field]

Goes(step) == pc' = step /\ UNCHANGED err

Refuses(e) == pc' = "return" /\ err' = e

\* The server hands the request to the handler of its door.
Arrive ==
  /\ pc = "idle"
  /\ pc' = IF form.door = "api" THEN "requesterID" ELSE "parse"
  /\ UNCHANGED handling

\* The API asks for the owner before it reads the body.
requesterID ==
  /\ pc = "requesterID"
  /\ \/ form.header = "none" /\ Refuses("errMissingUserID")
     \/ form.header = "long" /\ Refuses("errUserIDTooLong")
     \/ form.header = "fits" /\ Goes("parse")
  /\ owner' = "header"
  /\ UNCHANGED <<form, field, pos, temp, open, defers, stored, faulty, status, render>>

\* What ParseMultipartForm reports.  A bad query string is reported only after the form
\* has been read; a form that cannot be read takes its temporary files with it.
ParseResults ==
  (IF form.body = "oversize" THEN {"ErrTooLarge"}
   ELSE IF form.body = "malformed" \/ form.query = "bad" THEN {"errMalformedBody"}
   ELSE {"nil"})
  \cup (IF MayFail THEN {"unreadable"} ELSE {})

\* Mutant: the pages remove temporary files only after the file is open.
Deferred_Late == {}

\* accept defers removeTempFiles as soon as the form is parsed.
Deferred == IF form.door = "web" THEN {"remove"} ELSE {}

\* formFile and accept parse the form.
ParseMultipartForm ==
  /\ pc = "parse"
  /\ \E result \in ParseResults :
       /\ \/ result = "nil" /\ Goes(IF form.door = "web" THEN "trusted" ELSE "formFile")
          \/ result = "unreadable" /\ Refuses("errMalformedBody")
          \/ result \in FormErrors /\ Refuses(result)
       /\ temp' = (form.spilt /\ form.body = "form" /\ result # "unreadable")
       /\ faulty' = (result = "unreadable")
       /\ defers' = IF result = "nil" THEN Deferred ELSE {}
  /\ UNCHANGED <<form, owner, field, pos, open, stored, status, render>>

\* The owner of the gateway covers the one of the form.
Trusted == IF form.header # "none" THEN "header" ELSE "user"

\* accept takes the owner, on the pages.
trustedUserID ==
  /\ pc = "trusted"
  /\ owner' = Trusted
  /\ LET id == IF Trusted = "header" THEN form.header ELSE form.user
     IN \/ id = "none" /\ Refuses("errMissingUserID")
        \/ id = "long" /\ Refuses("errUserIDTooLong")
        \/ id = "fits" /\ Goes("formFile")
  /\ UNCHANGED <<form, field, pos, temp, open, defers, stored, faulty, status, render>>

\* Mutant: the API looks at the fields in the other order.
Names_ImageFirst(fs) ==
  IF "image" \in fs THEN "image" ELSE IF "file" \in fs THEN "file" ELSE "none"

\* The field of the file: file before image in the API, only file on the pages.
Names(fs) ==
  IF "file" \in fs THEN "file"
  ELSE IF "image" \in fs /\ form.door = "api" THEN "image"
  ELSE "none"

\* With the file open the API defers closeForm, the pages closeFile.
Opened == defers \cup (IF form.door = "api" THEN {"close", "remove"} ELSE {"close"})

\* The file is opened; without one closeForm is never deferred.
formFile ==
  /\ pc = "formFile"
  /\ \/ /\ Names(DOMAIN form.parts) = "none"
        /\ Refuses("errMissingFile") /\ UNCHANGED <<field, open, defers, faulty>>
     \/ /\ Names(DOMAIN form.parts) # "none" /\ MayFail
        /\ Refuses("errMalformedBody") /\ faulty' = TRUE
        /\ UNCHANGED <<field, open, defers>>
     \/ /\ Names(DOMAIN form.parts) # "none"
        /\ field' = Names(DOMAIN form.parts)
        /\ open' = TRUE /\ defers' = Opened
        /\ Goes("limits") /\ UNCHANGED faulty
  /\ UNCHANGED <<form, owner, pos, temp, stored, status, render>>

\* The size of the file and the length of its name.
limits ==
  /\ pc = "limits"
  /\ \/ Part.size = "large" /\ Refuses("ErrTooLarge")
     \/ Part.size = "fits" /\ Part.name = "long" /\ Refuses("errFileNameTooLong")
     \/ Part.size = "fits" /\ Part.name = "fits" /\ Goes("upload")
  /\ UNCHANGED <<form, owner, field, pos, temp, open, defers, stored, faulty, status, render>>

\* Service.Upload: Validate, then the object is put from where the file stands.
Upload ==
  /\ pc = "upload"
  /\ \E ahead \in HeaderLen..HeaderLen + 1 :
       LET checked == Validate(Part.image, ahead)
       IN /\ pos' = checked.pos
          /\ \/ /\ checked.err # "nil"
                /\ Refuses(checked.err) /\ UNCHANGED <<stored, faulty>>
             \/ /\ checked.err = "nil"
                /\ stored' = From(Part.image, checked.pos)
                /\ pc' = "return" /\ UNCHANGED <<err, faulty>>
             \/ /\ MayFail /\ faulty' = TRUE
                /\ \E e \in ServiceErrors : Refuses(e)
                /\ UNCHANGED stored
  /\ UNCHANGED <<form, owner, field, temp, open, defers, status, render>>
-----------------------------------------------------------------------------
\* What handlers other than upload answer with as well.
ReadErrors == {"ErrNotFound", "ErrForbidden", "ErrUnsupportedSize", "errInvalidAvatarID"}

\* api.mapError; a panic, which recovering answers, has the status of the rest.
mapError(e) ==
  CASE e = "ErrNotFound" -> 404
    [] e = "ErrForbidden" -> 403
    [] e = "ErrTooLarge" -> 413
    [] e \in {"ErrUnsupportedSize", "errInvalidAvatarID"} -> 400
    [] e \in ImageErrors \cup (FormErrors \ {"ErrTooLarge"}) -> 400
    [] e = "ErrInvalidTransition" -> 409
    [] e = "ErrUnavailable" -> 503
    [] e = "DeadlineExceeded" -> 504
    [] OTHER -> 500

\* Handlers.describeError.
describeError(e) ==
  CASE e = "ErrTooLarge" -> 413
    [] e \in ImageErrors \cup (FormErrors \ {"ErrTooLarge"}) -> 400
    [] e = "DeadlineExceeded" -> 504
    [] OTHER -> 500

\* The API creates, the pages redirect to the gallery; an error has its status.
Response ==
  IF form.door = "api"
  THEN (IF err = "nil" THEN 201 ELSE mapError(err))
  ELSE (IF err = "nil" THEN 303 ELSE describeError(err))

\* The handler answers and its deferred calls run: closeForm, closeFile, removeTempFiles.
Return ==
  /\ pc = "return" /\ pc' = "done"
  /\ status' = Response
  /\ open' = (open /\ "close" \notin defers)
  /\ temp' = (temp /\ "remove" \notin defers)
  /\ defers' = {}
  /\ UNCHANGED <<form, err, owner, field, pos, stored, faulty, render>>

\* The worker makes thumbnails of the stored object.
Process ==
  /\ pc = "done" /\ err = "nil" /\ render = "none"
  /\ \E ahead \in HeaderLen..HeaderLen + 1 : render' = Thumbnails(stored, Part.image, ahead)
  /\ UNCHANGED <<pc, form, err, owner, field, pos, temp, open, defers, stored, faulty, status>>

upload ==
  \/ Arrive \/ requesterID \/ ParseMultipartForm \/ trustedUserID \/ formFile
  \/ limits \/ Upload \/ Return
-----------------------------------------------------------------------------
\* The file a door takes, by the API's and the pages' descriptions.
Wanted ==
  IF "file" \in DOMAIN form.parts THEN form.parts["file"] ELSE form.parts["image"]

HasFile ==
  "file" \in DOMAIN form.parts \/ (form.door = "api" /\ "image" \in DOMAIN form.parts)

\* The owner the service is to record: the gateway's, on the pages else the form's.
OwnerID ==
  IF form.door = "web" /\ form.header = "none" THEN form.user ELSE form.header

\* What is wrong with a request, whatever the order of the checks.
Defects ==
  {e \in FormErrors \cup ImageErrors :
     \/ e = "errMissingUserID" /\ OwnerID = "none"
     \/ e = "errUserIDTooLong" /\ OwnerID = "long"
     \/ e = "errMalformedBody" /\ (form.body = "malformed" \/ form.query = "bad")
     \/ e = "errMissingFile" /\ ~HasFile
     \/ e = "ErrTooLarge" /\ (form.body = "oversize" \/ (HasFile /\ Wanted.size = "large"))
     \/ e = "errFileNameTooLong" /\ HasFile /\ Wanted.name = "long"
     \/ e = "ErrUnsupportedFormat" /\ HasFile
          /\ (\/ Wanted.image.mime \notin {"jpeg", "png", "webp"}
              \/ Wanted.image.animated
              \/ Wanted.image.pixels = 0 \/ Wanted.image.len < HeaderLen)
     \/ e = "ErrImageTooBig" /\ HasFile /\ Wanted.image.pixels > MaxPixels}

\* A request is refused for something that is wrong with it and an upload with nothing
\* wrong is taken, through both doors, unless a file or a dependency fails: the checks of
\* the owner, the form, the field, the limits and the image, each in its own function
\* and in a different order at each door, add up to the same rule.
VerdictIsTrue ==
  pc = "done" /\ ~faulty =>
    IF Defects = {} THEN err = "nil" ELSE err \in Defects

\* An answered upload has stored the whole file for the gateway's owner if there is one:
\* Validate reads the same file that is then put, and rewinds it on every path.  And the
\* worker refuses such an object only if the data after the header are broken: Validate
\* and Thumbnails agree on formats, animation and pixels.
TakenIsGood ==
  /\ pc = "done" /\ err = "nil" =>
       /\ stored = Blocks(Wanted.image)
       /\ OwnerID = "fits" /\ (form.header # "none" => owner = "header")
  /\ render \notin {"none", "nil"} => ~Wanted.image.body

\* Once answered, a request keeps a file open on no path, and a temporary file only if it
\* was refused for its form: every other path runs closeForm or removeTempFiles; the pages
\* leave one only if the form itself was not accepted.
LeavesNothing ==
  pc = "done" =>
    /\ ~open
    /\ temp => err = "errMalformedBody" \/ (err = "errMissingFile" /\ form.door = "api")
-----------------------------------------------------------------------------
(* What the properties rest on. *)

\* The request got beyond a step: its handler is at a later one, or went to the end.
Past(steps) == pc \in steps \/ (pc \in {"return", "done"} /\ err = "nil")

\* What the checks that a request passed say of it.
ChecksPassed ==
  /\ Past({"trusted", "formFile", "limits", "upload"}) => form.body = "form" /\ form.query = "good"
  /\ Past({"formFile", "limits", "upload"}) \/ (form.door = "api" /\ pc = "parse") =>
       OwnerID = "fits" /\ (form.header # "none" => owner = "header")
  /\ Past({"limits", "upload"}) => HasFile /\ field \in DOMAIN form.parts /\ Part = Wanted
  /\ Past({"upload"}) => Part.size = "fits" /\ Part.name = "fits"
  /\ Past({}) => Validate(Part.image, HeaderLen).err = "nil" /\ stored = Blocks(Part.image)

\* What is on the disk and open, and what is deferred to clear it away.
Cleared ==
  /\ pc \in {"idle", "requesterID", "parse"} => ~temp /\ defers = {}
  /\ pc \in {"trusted", "formFile"} => defers = Deferred
  /\ pc \in {"limits", "upload"} => defers = {"close", "remove"}
  /\ pc = "trusted" => form.door = "web"
  /\ pc = "requesterID" => form.door = "api"
  /\ pc = "return" =>
       /\ open => "close" \in defers
       /\ temp /\ "remove" \notin defers =>
            err = "errMalformedBody" \/ (err = "errMissingFile" /\ form.door = "api")

IntakeSound ==
  /\ pc \notin {"return", "done"} => err = "nil"
  /\ status = IF pc = "done" THEN Response ELSE 0
  /\ pc # "done" => render = "none"
  /\ err # "nil" /\ ~faulty => err \in Defects
  /\ ChecksPassed /\ Cleared
  /\ LeavesNothing /\ (render \notin {"none", "nil"} => ~Wanted.image.body)
=============================================================================
