------------------------------ MODULE Stripping ------------------------------
(***************************************************************************)
(* Metadata stripping: how an uploaded JPEG or PNG is rewritten segment by *)
(* segment (web/upload.rs), and what its dimensions are taken to be        *)
(* afterwards (util.rs).                                                   *)
(*                                                                         *)
(* An image is written here as the formats say, with what is to be left of *)
(* it beside; it may also be cut off anywhere in its last segment.  Files  *)
(* are sequences of bytes, for what goes wrong here goes wrong by a byte.  *)
(***************************************************************************)
EXTENDS Naturals, Sequences, FiniteSetsExt

CONSTANTS PreviewBytes,  \* UPLOAD_PREVIEW_BYTES
          MaxSegments  \* bound: segments of an image

ASSUME StrippingAssumption == PreviewBytes \in 24..200 /\ MaxSegments \in Nat

VARIABLES image,     \* the upload; trail (history): where its segments begin
          rewritten  \* [phase, at, out]: where the rewriting reads, and what it has written

strippingVars == <<image, rewritten>>

\* Markers of JPEG; metadata are APP0 to APP15 and comments, frames SOF0 to SOF15
\* without DHT, JPG and DAC.
TEM == 1     EOI == 217     SOS == 218     APP1 == 225     COM == 254     DQT == 219
Bare     == {TEM, EOI} \cup 208..215
Metadata == 224..239 \cup {COM}
Frames   == (192..207) \ {196, 200, 204}

\* Types of PNG; a critical one begins with a capital.
IHDR == <<73, 72, 68, 82>>     IDAT == <<73, 68, 65, 84>>
IEND == <<73, 69, 78, 68>>     tEXt == <<116, 69, 88, 116>>
Critical(type) == type[1] \in 65..90

Signature == [jpeg |-> <<255, 216>>, png |-> <<137, 80, 78, 71, 13, 10, 26, 10>>]
NoSize    == <<0, 0>>

\* The rewriting has read bytes and written out.
Past(bytes, out) == [phase |-> "loop", at |-> Len(bytes) + 1, out |-> out]

StrippingInit ==
    /\ rewritten = [phase |-> "waiting", at |-> 1, out |-> <<>>]
    /\ \E format \in DOMAIN Signature :
           image = [format |-> format, bytes |-> Signature[format], kept |-> Signature[format],
                    trail |-> <<Past(Signature[format], Signature[format])>>,
                    whole |-> TRUE, size |-> NoSize, sizeAt |-> 0]

-----------------------------------------------------------------------------
(* How images are written. *)

\* The payloads can look like a marker, and be longer than the preview.
Payloads == {<<>>, <<255, EOI>>, [i \in 1..PreviewBytes |-> 0]}

Segment(marker, payload) == <<255, marker, 0, Len(payload) + 2>> \o payload
Chunk(type, payload)     == <<0, 0, 0, Len(payload)>> \o type \o payload \o <<0, 0, 0, 0>>

Segments == Len(image.trail) - 1

WithSize(bytes, kept, size, sizeAt) ==
    /\ rewritten.phase = "waiting" /\ Segments < MaxSegments
    /\ image' = [image EXCEPT !.bytes = @ \o bytes, !.kept = @ \o kept,
                              !.trail = Append(@, Past(image.bytes \o bytes, image.kept \o kept)),
                              !.size = size, !.sizeAt = sizeAt]
    /\ UNCHANGED rewritten
Write(bytes, kept) == WithSize(bytes, kept, image.size, image.sizeAt)

\* A byte of fill may stand before any marker.
WriteMetadata == \E p \in Payloads :
    \/ image.format = "jpeg" /\ Write(Segment(APP1, p), <<>>)
    \/ image.format = "jpeg" /\ Write(<<255>> \o Segment(COM, p), <<>>)
    \/ image.format = "png" /\ Segments > 0 /\ Write(Chunk(tEXt, p), <<>>)

WriteOther ==
    \/ image.format = "jpeg" /\ Write(<<255, 255, TEM>>, <<255, TEM>>)
    \/ \E p \in Payloads :
           \/ image.format = "jpeg" /\ Write(Segment(DQT, p), Segment(DQT, p))
           \/ image.format = "png" /\ Segments > 0 /\ Write(Chunk(IDAT, p), Chunk(IDAT, p))

\* Width and height; the header of a PNG is its first chunk.
SizeSegment(w, h) == IF image.format = "jpeg" THEN Segment(192, <<8, 0, h, 0, w>>)
                     ELSE Chunk(IHDR, <<0, 0, 0, w, 0, 0, 0, h>>)
\* The dimensions take the whole frame of a JPEG, and the first 24 bytes of a PNG.
SizeEnd == Len(image.kept) + IF image.format = "jpeg" THEN 9 ELSE 16
WriteSize == \E w, h \in {16, 32} :
    /\ image.size = NoSize /\ (image.format = "png" => Segments = 0)
    /\ WithSize(SizeSegment(w, h), SizeSegment(w, h), <<w, h>>, SizeEnd)

\* What ends an image: anything may follow a scan or the end.
Ends == IF image.format = "png" THEN {[bytes |-> Chunk(IEND, <<>>), after |-> "dropped"]}
        ELSE {[bytes |-> <<255, EOI>>, after |-> "dropped"],
              [bytes |-> Segment(SOS, <<0>>), after |-> "kept"], [bytes |-> <<0>>, after |-> "kept"]}

\* The image is received, to its end, to the end of a segment, or cut off in one.  A
\* PNG whose last chunk has not even a header goes without it; any other cut makes an
\* upload that stays as it came.
ReceiveWhole ==
    /\ rewritten.phase = "waiting" /\ rewritten' = [rewritten EXCEPT !.phase = "begin"]
    /\ Segments > 0 /\ UNCHANGED image
ReceiveEnded == \E end \in Ends, more \in {<<>>, Segment(APP1, <<>>)} :
    /\ rewritten.phase = "waiting" /\ rewritten' = [rewritten EXCEPT !.phase = "begin"]
    /\ image' = [image EXCEPT !.bytes = @ \o end.bytes \o more,
                              !.kept = @ \o end.bytes \o
                                       (IF end.after = "kept" THEN more ELSE <<>>)]
ReceiveCut ==
    /\ rewritten.phase = "waiting" /\ rewritten' = [rewritten EXCEPT !.phase = "begin"]
    /\ Segments > 0
    /\ LET last == image.trail[Segments]
       IN  \E n \in last.at..(Len(image.bytes) - 1) :
               LET bytes == SubSeq(image.bytes, 1, n)
                   torn  == image.format = "jpeg" \/ n >= last.at + 7
               IN  image' = [image EXCEPT !.bytes = bytes, !.whole = FALSE,
                                          !.trail = SubSeq(@, 1, Segments),
                                          !.kept = IF torn THEN bytes ELSE last.out]

-----------------------------------------------------------------------------
(* How they are rewritten. *)

\* x goes on reading at next, or is done.
Continued(x, next, out) == [phase |-> "loop", at |-> next, out |-> out]
Finished(x, out)        == [phase |-> "done", at |-> x.at, out |-> out]

StripBegin == /\ rewritten.phase = "begin" /\ UNCHANGED image
              /\ rewritten' = Past(Signature[image.format], Signature[image.format])

\* The first position from i on that has no fill byte; past the end if there is none.
MarkerFrom(b, i) == Min({m \in i..Len(b) : b[m] # 255} \cup {Len(b) + 1})

\* Mutant: the length is taken for that of what follows it.
SegmentEndAfter(b, m) == m + 2 + 256 * b[m + 1] + b[m + 2]

\* The length of a segment counts itself.
SegmentEnd(b, m)   == m + 256 * b[m + 1] + b[m + 2]
WholeSegment(b, m) == m + 2 <= Len(b) /\ SegmentEnd(b, m) \in (m + 2)..Len(b)

\* strip_jpeg_metadata_file: one turn of its loop over the bytes b, from x to y.
JpegTurn(b, x, y) ==
    LET m == MarkerFrom(b, x.at + 1)
    IN  \/ x.at > Len(b) /\ y = Finished(x, x.out)
        \/ x.at <= Len(b) /\ b[x.at] # 255 /\ y = Finished(x, x.out \o SubSeq(b, x.at, Len(b)))
        \/ /\ x.at <= Len(b) /\ b[x.at] = 255
           /\ \/ m > Len(b) /\ y = Finished(x, b)
              \/ /\ m <= Len(b) /\ b[m] \in Bare
                 /\ y = IF b[m] = EOI THEN Finished(x, x.out \o <<255, EOI>>)
                                      ELSE Continued(x, m + 1, x.out \o <<255, b[m]>>)
              \/ /\ m <= Len(b) /\ b[m] \notin Bare
                 /\ \/ ~WholeSegment(b, m) /\ y = Finished(x, b)
                    \/ /\ WholeSegment(b, m) /\ b[m] \in Metadata
                       /\ y = Continued(x, SegmentEnd(b, m) + 1, x.out)
                    \/ /\ WholeSegment(b, m) /\ b[m] = SOS
                       /\ y = Finished(x, x.out \o <<255>> \o SubSeq(b, m, Len(b)))
                    \/ /\ WholeSegment(b, m) /\ b[m] \notin Metadata \cup {SOS}
                       /\ y = Continued(x, SegmentEnd(b, m) + 1,
                                        x.out \o <<255>> \o SubSeq(b, m, SegmentEnd(b, m)))

\* A chunk has a length, a type and, after what it holds, a checksum.
ChunkType(b, p) == SubSeq(b, p + 4, p + 7)
ChunkEnd(b, p)  == p + 11 + b[p + 3]

\* strip_png_metadata_file, likewise.
PngTurn(b, x, y) ==
    LET end  == ChunkEnd(b, x.at)
        type == ChunkType(b, x.at)
    IN  \/ x.at + 7 > Len(b) /\ y = Finished(x, x.out)
        \/ x.at + 7 <= Len(b) /\ end > Len(b) /\ y = Finished(x, b)
        \/ /\ x.at + 7 <= Len(b) /\ end <= Len(b)
           /\ y = IF type = IEND THEN Finished(x, x.out \o SubSeq(b, x.at, end))
                  ELSE Continued(x, end + 1, IF Critical(type)
                                             THEN x.out \o SubSeq(b, x.at, end) ELSE x.out)

StripJpeg == /\ rewritten.phase = "loop" /\ image.format = "jpeg" /\ UNCHANGED image
             /\ JpegTurn(image.bytes, rewritten, rewritten')
StripPng  == /\ rewritten.phase = "loop" /\ image.format = "png" /\ UNCHANGED image
             /\ PngTurn(image.bytes, rewritten, rewritten')

-----------------------------------------------------------------------------
(* What is read off the first bytes of the result. *)

ValidSize(w, h) == IF w = 0 \/ h = 0 THEN NoSize ELSE <<w, h>>

\* jpeg_dimensions, a walk of its own: what it finds at i, if it finds from[j] at j.
SizeAt(b, i, from) ==
    LET m == MarkerFrom(b, i)
    IN  IF i + 3 > Len(b) \/ m > Len(b) THEN NoSize
        ELSE IF b[m] \in {TEM, 216, EOI} THEN from[m + 1]
        ELSE IF ~WholeSegment(b, m) THEN NoSize
        ELSE IF b[m] \notin Frames THEN from[SegmentEnd(b, m) + 1]
        ELSE IF SegmentEnd(b, m) < m + 7 THEN NoSize
        ELSE ValidSize(256 * b[m + 6] + b[m + 7], 256 * b[m + 4] + b[m + 5])
SizeFrom(b) == LET from[i \in 1..(Len(b) + 1)] == SizeAt(b, i, from) IN from
JpegSize(b) == SizeFrom(b)[3]

\* png_dimensions: the last two bytes of each number here, the others are zero.
PngSize(b) == IF Len(b) < 24 \/ SubSeq(b, 13, 16) # IHDR THEN NoSize
              ELSE ValidSize(256 * b[19] + b[20], 256 * b[23] + b[24])

Start(b, n) == SubSeq(b, 1, IF n < Len(b) THEN n ELSE Len(b))

\* Mutant: the preview stays that of the upload.
PreviewOfUpload(out) == Start(image.bytes, PreviewBytes)

\* replace_with_temp_rewrite
PreviewOf(out) == Start(out, PreviewBytes)

\* image_dimensions
Dimensions(b) == IF image.format = "png" THEN PngSize(b) ELSE JpegSize(b)

StrippingNext == \/ WriteMetadata \/ WriteOther \/ WriteSize
                 \/ ReceiveWhole \/ ReceiveEnded \/ ReceiveCut
                 \/ StripBegin \/ StripJpeg \/ StripPng

StrippingSpec == StrippingInit /\ [][StrippingNext]_strippingVars

-----------------------------------------------------------------------------
\* What is stored is the image without its metadata, whatever its segments contain, and
\* otherwise byte by byte as it came; what cannot be followed to the end of a segment
\* stays as it is (strip_temp_file_metadata, web/upload.rs:580).
StrippedExactly == rewritten.phase = "done" => rewritten.out = image.kept

\* The dimensions recorded are those of the image, if they are within the preview once
\* the metadata is gone: the two walks over the same bytes agree (image_dimensions,
\* util.rs:140; strip_jpeg_metadata_file, web/upload.rs:648).
DimensionsKnown ==
    rewritten.phase = "done" /\ image.whole /\ image.sizeAt <= PreviewBytes =>
        Dimensions(PreviewOf(rewritten.out)) = image.size

\* Signatures, markers, lengths and payloads are bytes.
Walking == [phase : {"loop"}, at : Nat \ {0}, out : Seq(Nat)]
StrippingTypeOK ==
    /\ image \in [format : {"jpeg", "png"}, bytes : Seq(Nat), kept : Seq(Nat), trail : Seq(Walking),
                  whole : BOOLEAN, size : Nat \X Nat, sizeAt : Nat]
    /\ rewritten \in [phase : {"waiting", "begin", "loop", "done"}, at : Nat \ {0}, out : Seq(Nat)]

Turn(format, b, x, y) == IF format = "png" THEN PngTurn(b, x, y) ELSE JpegTurn(b, x, y)

\* From the first segment of an image each turn leads to the next one, and from the last
\* to the end, with what is to be left.
LastOf(trail) == trail[Len(trail)]
Chained(format, b, trail) ==
    /\ trail # <<>> /\ trail[1] = Past(Signature[format], Signature[format])
    /\ \A n \in 1..(Len(trail) - 1) : Turn(format, b, trail[n], trail[n + 1])
    /\ \A n, m \in 1..Len(trail) : n <= m => trail[n].at <= trail[m].at
    /\ LastOf(trail).at <= Len(b) + 1
TrailLeads ==
    LET last == LastOf(image.trail)
    IN  /\ Chained(image.format, image.bytes, image.trail)
        /\ Turn(image.format, image.bytes, last, Finished(last, image.kept))
        /\ rewritten.phase = "waiting" => last = Past(image.bytes, image.kept) /\ image.whole

\* The rewriting is at one of the segments.
OnTrail == rewritten.phase = "loop" => \E n \in DOMAIN image.trail : rewritten = image.trail[n]

Followed == StrippingTypeOK /\ TrailLeads /\ OnTrail /\ StrippedExactly

\* What the run checks.
StrippingInvariant == Followed /\ DimensionsKnown
=============================================================================
