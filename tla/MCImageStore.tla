---------------------------- MODULE MCImageStore ----------------------------
(***************************************************************************)
(* Instances of ImageStore for TLC.                                        *)
(***************************************************************************)
EXTENDS ImageStore

CONSTANTS a, b, ff, mixed

Payload(p)     == Header(Len(p), p, 1, TRUE)
Image(p)       == <<Payload(p)>> \o p

\* A file shorter than a header; two images of different lengths, the second
\* ending in erased words; the second without its last word; one whose payload
\* is not what its header says; one with words after its payload; one that is
\* not native; one that needs too much RAM; no image; one longer than the slot.
MCFiles ==
  {<<>>, Image(<<a, b, a>>), Image(<<b, ff>>), <<Payload(<<b, ff>>), b>>,
   <<Payload(<<a, b>>), a, a>>, Image(<<b>>) \o <<a>>,
   <<Header(1, <<a>>, 1, FALSE), a>>, <<Header(2, <<b, a>>, 2, TRUE), b, a>>,
   <<a, b>>, Image(<<a, a, a, a, b, b, b>>)}

MCPayloadWords == {a, b, ff}

\* What StoreImplementsSlot (ImageStoreProofs) asks of the files.
ASSUME MCFilesTellErasure == \A f \in Files : TellsErasure(f)
=============================================================================
