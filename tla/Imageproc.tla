----------------------------- MODULE Imageproc -----------------------------
(***************************************************************************)
(* internal/imageproc: what the server learns of a file before it takes it *)
(* (Validate) and what the worker does with the stored object              *)
(* (Thumbnails).  A file is a sequence of numbered blocks, so that a       *)
(* reader that starts at the wrong place, or drops what it has read, sees  *)
(* something else than the file.                                           *)
(***************************************************************************)
EXTENDS Naturals, Sequences

CONSTANTS
  MaxPixels,  \* IMAGE_MAX_PIXELS
  HeadLen,    \* sniffLen, in blocks
  HeaderLen   \* the blocks that hold the header of an image

\* pixels = 0: no decoder can read the header, or the image is empty.
\* body: image.Decode can read what follows the header.
\* animated: of the formats that are taken only WebP may move.
Images ==
  {img \in [mime : {"jpeg", "png", "webp", "gif", "text"}, animated : BOOLEAN,
            len : Nat, pixels : Nat, body : BOOLEAN] : img.animated => img.mime \notin {"jpeg", "png"}}

Blocks(img) == [i \in 1..img.len |-> i]

\* What a reader of the file delivers from a position on.
From(img, pos) == SubSeq(Blocks(img), pos + 1, img.len)

Shorter(m, n) == IF m < n THEN m ELSE n

readHead(s) == SubSeq(s, 1, Shorter(HeadLen, Len(s)))

\* http.DetectContentType goes by the first bytes.
Sniffed(head, img) == IF head # <<>> /\ head[1] = 1 THEN img.mime ELSE "text"

checkMime(head, img) ==
  LET mime == Sniffed(head, img)
  IN IF mime \in {"jpeg", "png"} \/ (mime = "webp" /\ ~img.animated)
     THEN "nil"
     ELSE "ErrUnsupportedFormat"

\* image.DecodeConfig needs the whole header, from the first byte on.
HeaderRead(s, img) ==
  /\ Len(s) >= HeaderLen /\ \A i \in 1..HeaderLen : s[i] = i
  /\ img.pixels > 0

decodeConfig(s, img) ==
  IF ~HeaderRead(s, img) THEN "ErrUnsupportedFormat"
  ELSE IF img.pixels > MaxPixels THEN "ErrImageTooBig"
  ELSE "nil"

\* Mutant: the file is handed on where the decoder has left it.
Validate_NotRewound(img, ahead) ==
  LET mime == checkMime(readHead(From(img, 0)), img)
  IN [err |-> IF mime = "nil" THEN decodeConfig(From(img, 0), img) ELSE mime,
      pos |-> IF mime = "nil" THEN Shorter(ahead, img.len) ELSE Shorter(HeadLen, img.len)]

\* Processor.Validate: the signature, then, rewound, the header; the deferred Seek leaves
\* the file at its start on every path.  ahead: how far the decoder has read.
Validate(img, ahead) ==
  LET mime == checkMime(readHead(From(img, 0)), img)
  IN [err |-> IF mime = "nil" THEN decodeConfig(From(img, 0), img) ELSE mime,
      pos |-> 0]

\* image.Decode makes an image of a whole, sound file that does not move.
Decoded(s, img) == s = Blocks(img) /\ img.body /\ ~img.animated

\* Processor.decode, on a stream that cannot be rewound: the head is put back before
\* the rest, what DecodeConfig reads is kept, and Decode gets both.
decode(s, img, ahead) ==
  LET head == readHead(s)
      rest == head \o SubSeq(s, Len(head) + 1, Len(s))
      config == decodeConfig(rest, img)
      seen == SubSeq(rest, 1, Shorter(ahead, Len(rest)))
  IN IF checkMime(head, img) # "nil" THEN checkMime(head, img)
     ELSE IF config # "nil" THEN config
     ELSE IF Decoded(seen \o SubSeq(rest, Len(seen) + 1, Len(rest)), img)
          THEN "nil" ELSE "ErrUnsupportedFormat"

\* Processor.Thumbnails: one decode for all sizes.
Thumbnails(s, img, ahead) == decode(s, img, ahead)
=============================================================================
