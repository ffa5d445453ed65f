------------------------------- MODULE MCHttp -------------------------------
(* Requests with every combination of owners, bodies and fields, and files with at *)
(* most one thing wrong with them.                                                 *)
EXTENDS Http

Sound == [mime |-> "jpeg", animated |-> FALSE, len |-> 4, pixels |-> MaxPixels, body |-> TRUE]

SampleImages ==
  {Sound,
   [Sound EXCEPT !.mime = "png"], [Sound EXCEPT !.mime = "webp"],
   [Sound EXCEPT !.mime = "webp", !.animated = TRUE],
   [Sound EXCEPT !.mime = "gif"], [Sound EXCEPT !.mime = "text", !.pixels = 0],
   [Sound EXCEPT !.pixels = 0], [Sound EXCEPT !.pixels = MaxPixels + 1],
   [Sound EXCEPT !.body = FALSE], [Sound EXCEPT !.len = 1],
   [Sound EXCEPT !.len = 0, !.mime = "text", !.pixels = 0]}

SampleParts ==
  [size : {"fits"}, name : {"fits"}, image : SampleImages]
    \cup [size : {"fits", "large"}, name : {"fits", "long"}, image : {Sound}]

SampleForms ==
  {f \in [door : Doors, header : Owners, query : {"good", "bad"},
          body : {"form", "malformed", "oversize"}, user : Owners,
          parts : UNION {[fs -> SampleParts] : fs \in SUBSET Fields}, spilt : BOOLEAN] :
     f.door = "api" => f.user = "none"}
=============================================================================
