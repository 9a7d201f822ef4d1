------------------------------ MODULE PdfGuard ------------------------------
(***************************************************************************)
(* validate_pdf: what a document must look like from outside, and the scan *)
(* of its objects that adds up image pixels and decoded bytes in unsigned  *)
(* integers of limited width. Each object is looked at once, in the order  *)
(* of the ids; which one it is comes up when it is looked at.              *)
(***************************************************************************)
EXTENDS Integers

CONSTANTS
    Heads,       \* documents, by what is tested before the scan
    Objects,     \* objects of a document
    MaxBytes,    \* MAX_JOB_BYTES
    MaxPages,    \* MAX_PAGES
    MaxObjects,  \* MAX_OBJECTS
    MaxDecoded,  \* MAX_DECODED_STREAM_BYTES
    MaxPixels,   \* MAX_IMAGE_PIXELS
    Top          \* the greatest u64

\* `marked`: it has the signature and the end marker where they belong and none of the
\* forbidden names.
HeadType == [pdf : BOOLEAN, size : Nat, marked : BOOLEAN, parsed : BOOLEAN,
             encrypted : BOOLEAN, pages : Nat, objects : Nat]

\* A width or height that is missing, negative or no integer is written -1. `content` is the
\* length of what the parser leaves in memory, which it may have unpacked already; `inflated`
\* is what the decoder yields from it until its end or, if it is torn, until it fails.
ObjectType == [kind : {"stream", "image", "other"}, width : Int, height : Int,
               flate : BOOLEAN, torn : BOOLEAN, content : Nat, inflated : Nat]

ASSUME LimitAssumption ==
    /\ MaxBytes \in Nat /\ MaxPages \in Nat /\ MaxObjects \in Nat
    /\ MaxDecoded \in Nat /\ MaxPixels \in Nat /\ Top \in Nat
    /\ 2 * MaxDecoded + 1 <= Top /\ MaxPixels < Top
\* A length is a usize, a dimension an i64; neither is beyond a u64.
ASSUME DocumentAssumption ==
    /\ Heads \subseteq HeadType /\ Objects \subseteq ObjectType
    /\ \A o \in Objects : o.content <= Top /\ o.width <= Top /\ o.height <= Top

VARIABLES
    verdict,
    left,        \* objects the scan has yet to look at
    decoded,     \* decoded_total
    pixels,      \* image_pixels_total
    \* Bookkeeping that is not in the code: the same sums, without limit or width ...
    exactBytes,
    exactPixels,
    unpacked     \* ... and all the bytes that decoders have yielded

scanVars  == <<left, decoded, pixels, exactBytes, exactPixels, unpacked>>
guardVars == <<verdict, scanVars>>

GuardInit ==
    /\ verdict = "none"
    /\ left = 0 /\ decoded = 0 /\ pixels = 0
    /\ exactBytes = 0 /\ exactPixels = 0 /\ unpacked = 0

HeadOK(h) ==
    /\ h.pdf /\ h.size \in 1..MaxBytes /\ h.marked
    /\ h.parsed /\ ~h.encrypted
    /\ h.objects <= MaxObjects /\ h.pages \in 1..MaxPages

Open(h) ==
    /\ verdict = "none"
    /\ verdict' = IF HeadOK(h) THEN "scanning" ELSE "refused"
    /\ left' = h.objects
    /\ UNCHANGED <<decoded, pixels, exactBytes, exactPixels, unpacked>>

-----------------------------------------------------------------------------
(* One object.                                                             *)

\* Broken: the sign is cast away.
Dimension_Cast(n) == n % (Top + 1)

\* u64::try_from(n).unwrap_or(0)
Dimension(n) == IF n < 0 THEN 0 ELSE n

\* Broken: wrapping_mul.
Product_Wrapping(m, n) == (m * n) % (Top + 1)

\* saturating_mul
Product(m, n) == IF m * n > Top THEN Top ELSE m * n

Pixels(o) == IF o.kind = "image" THEN Product(Dimension(o.width), Dimension(o.height)) ELSE 0

\* Broken: each image is held against the limit alone.
TooManyPixels_Single(o) == Pixels(o) > MaxPixels

\* checked_add, of which an overflow is an error as any sum above the limit is.
TooManyPixels(o) == pixels + Pixels(o) > MaxPixels

\* Broken: the decoder may run to its end.
Yield_All(o) == IF o.flate THEN o.inflated ELSE 0

\* Decoding stops one byte after the limit.
Yield(o) ==
    IF ~o.flate THEN 0
    ELSE IF o.inflated > MaxDecoded THEN MaxDecoded + 1 ELSE o.inflated

\* The size that is counted.
Copied(o) == IF o.flate THEN Yield(o) ELSE o.content

\* The decoder meets the fault before the byte at which decoding stops.
Corrupt(o) == o.flate /\ o.torn /\ o.inflated <= MaxDecoded

\* What is in the object, whatever the code makes of it.
Look(o) ==
    /\ verdict = "scanning" /\ left > 0
    /\ left' = left - 1
    /\ exactBytes' = exactBytes + (IF o.kind = "other" THEN 0
                                   ELSE IF o.flate THEN o.inflated ELSE o.content)
    /\ exactPixels' = exactPixels + (IF o.kind = "image" /\ o.width > 0 /\ o.height > 0
                                     THEN o.width * o.height ELSE 0)

Skip(o) ==
    /\ Look(o) /\ o.kind = "other"
    /\ UNCHANGED <<verdict, decoded, pixels, unpacked>>

RefuseImage(o) ==
    /\ Look(o) /\ o.kind # "other" /\ TooManyPixels(o)
    /\ verdict' = "pixels"
    /\ UNCHANGED <<decoded, pixels, unpacked>>

RefuseStream(o) ==
    /\ Look(o) /\ o.kind # "other" /\ ~TooManyPixels(o) /\ Corrupt(o)
    /\ verdict' = "corrupt"
    /\ pixels' = pixels + Pixels(o)
    /\ unpacked' = unpacked + Yield(o)
    /\ UNCHANGED decoded

\* checked_add: an overflow is an error, as any sum above the limit is.
CountStream(o) ==
    /\ Look(o) /\ o.kind # "other" /\ ~TooManyPixels(o) /\ ~Corrupt(o)
    /\ pixels' = pixels + Pixels(o)
    /\ unpacked' = unpacked + Yield(o)
    /\ decoded' = IF decoded + Copied(o) > Top THEN decoded ELSE decoded + Copied(o)
    /\ verdict' = IF decoded + Copied(o) > MaxDecoded THEN "decoded" ELSE "scanning"

Accept ==
    /\ verdict = "scanning" /\ left = 0
    /\ verdict' = "accepted"
    /\ UNCHANGED scanVars

GuardNext ==
    \/ \E h \in Heads : Open(h)
    \/ \E o \in Objects : Skip(o) \/ RefuseImage(o) \/ RefuseStream(o) \/ CountStream(o)
    \/ Accept

GuardSpec == GuardInit /\ [][GuardNext]_guardVars

-----------------------------------------------------------------------------
GuardTypeOK ==
    /\ verdict \in {"none", "scanning", "accepted", "refused", "pixels", "corrupt", "decoded"}
    /\ left \in Nat /\ decoded \in 0..Top /\ pixels \in 0..MaxPixels
    /\ exactBytes \in Nat /\ exactPixels \in Nat /\ unpacked \in Nat

\* An accepted document keeps the limits in exact arithmetic, whatever its numbers are and
\* however they are spread over its objects: no product or sum wraps below a limit, and no
\* stream is cut off at it.
AcceptedWithinLimits == verdict = "accepted" =>
    exactBytes <= MaxDecoded /\ exactPixels <= MaxPixels

\* A document is refused for its pixels or its decoded size only if it does exceed them: a
\* negative or absurd number is not taken for a great one.
RefusedForCause ==
    /\ verdict = "pixels" => exactPixels > MaxPixels
    /\ verdict = "decoded" => exactBytes > MaxDecoded

\* However much its streams would unpack to, each or together, and whether the last of them
\* is torn or not, the decoders of the scan yield at most twice the limit and one byte. This
\* says nothing of what the parser unpacks before the scan.
WorkBounded == unpacked <= 2 * MaxDecoded + 1
=============================================================================
