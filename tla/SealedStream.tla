---------------------------- MODULE SealedStream ----------------------------
(***************************************************************************)
(* The encrypted file of a package (packages/crypto/src/stream): a header, *)
(* then frames of one secretstream.  A frame opens only in the stream it   *)
(* was pushed to, at its place, under its key and with the additional data *)
(* of its place; the last one carries the tag FINAL.                       *)
(*                                                                         *)
(* A file is a sequence of items: the header, whole frames, and Torn, the  *)
(* beginning of a frame that ends nowhere.  How the bytes are cut when     *)
(* they arrive makes no difference to the parser and is left out.          *)
(***************************************************************************)
EXTENDS Naturals, Sequences, SequencesExt

CONSTANT MaxFrame \* MAX_PLAINTEXT_FRAME_BYTES

Torn == [kind |-> "torn"]

Header(stream) == [kind |-> "header", stream |-> stream]

FrameAdditionalData(context, sequence) == [context |-> context, sequence |-> sequence]

Frame(key, stream, context, sequence, tag, message) ==
    [kind |-> "frame", key |-> key, stream |-> stream, place |-> sequence,
     aad |-> FrameAdditionalData(context, sequence), tag |-> tag, message |-> message]

-----------------------------------------------------------------------------
(* Encryption.                                                             *)

\* What one chunk of the source is cut into; an empty one gives no piece.
Pieces(chunk) ==
    [i \in 1..((Len(chunk) + MaxFrame - 1) \div MaxFrame) |->
        SubSeq(chunk, (i - 1) * MaxFrame + 1,
               IF i * MaxFrame < Len(chunk) THEN i * MaxFrame ELSE Len(chunk))]

\* One piece is held back, so that the last one can be marked; nothing at all
\* makes one empty frame.
Messages(chunks) ==
    LET pieces == FlattenSeq([i \in DOMAIN chunks |-> Pieces(chunks[i])])
    IN  IF pieces = <<>> THEN <<<<>>>> ELSE pieces

EncryptStream(key, stream, context, chunks) ==
    LET messages == Messages(chunks)
    IN  <<Header(stream)>> \o
        [i \in DOMAIN messages |->
            Frame(key, stream, context, i - 1,
                  IF i = Len(messages) THEN "FINAL" ELSE "MESSAGE", messages[i])]

-----------------------------------------------------------------------------
(* Decryption.                                                             *)

Opens(frame, key, stream, context, sequence) ==
    /\ frame.key = key
    /\ frame.stream = stream
    /\ frame.place = sequence
    /\ frame.aad = FrameAdditionalData(context, sequence)

Start == [phase |-> "header", stream |-> <<>>, sequence |-> 0, delivered |-> <<>>]

\* One item; a phase of "failed" is the exception.  A frame is handed on before
\* the end of the file is known.
Feed(key, context, state, item) ==
    LET failed == [state EXCEPT !.phase = "failed"]
    IN  CASE state.phase \in {"failed", "torn"} -> failed
          [] state.phase = "header" ->
                IF item.kind = "header"
                THEN [state EXCEPT !.phase = "frames", !.stream = <<item.stream>>]
                ELSE failed
          [] state.phase = "final" -> failed
          [] state.phase = "frames" /\ item.kind = "torn" -> [state EXCEPT !.phase = "torn"]
          [] state.phase = "frames" /\ item.kind = "header" -> failed
          [] OTHER ->
                IF Opens(item, key, state.stream[1], context, state.sequence)
                THEN [state EXCEPT !.phase = IF item.tag = "FINAL" THEN "final" ELSE "frames",
                                   !.sequence = @ + 1,
                                   !.delivered = Append(@, item.message)]
                ELSE failed

\* What the sink has received, and whether there is a manifest.
DecryptStream(key, context, file) ==
    LET end == FoldLeft(LAMBDA state, item : Feed(key, context, state, item), Start, file)
    IN  [delivered |-> end.delivered, manifest |-> end.phase = "final"]

\* The worker compares the header with the row of the package before it feeds it.
DecryptPackage(key, context, header, file) ==
    IF file # <<>> /\ file[1] = header
    THEN DecryptStream(key, context, file)
    ELSE [delivered |-> <<>>, manifest |-> FALSE]

=============================================================================
