---------------------------- MODULE ReportStream ----------------------------
(***************************************************************************)
(* The bytes of one report on their way from the client to the parser: the *)
(* BoundedReader under the store's Put, and the chain from the stored      *)
(* object through verifiedReader, trackingReader and LimitReader into the  *)
(* parser's ReadAll, with the verdict the processor derives from it.       *)
(*                                                                         *)
(* A step is one Read.  As io.Reader allows, a source returns any number   *)
(* of the bytes asked for, and reports EOF together with its last bytes or *)
(* by itself later.  Bytes are counted; their content is intact but for    *)
(* at most one altered byte, which a digest always reveals.  Prefixes of   *)
(* the body differ in length, so a length stands for their digest, too.    *)
(***************************************************************************)
EXTENDS Integers

CONSTANTS
    MaxSize,        \* bound on the sizes of bodies, limits and damaged objects
    BufferSize      \* largest buffer a Read is called with

ASSUME StreamConstants == MaxSize \in Nat /\ BufferSize \in Nat \ {0}

Sizes == 0..MaxSize
NoSize == -1

VARIABLES
    body,           \* bytes the client sends before EOF
    maxBytes,       \* imports.max_bytes
    expected,       \* size and digest the client announced, or NoSize
    parserMax,      \* Limits.MaxBytes of the parser
    pc,             \* how far the report has come
    verdict,        \* why it was refused
    copied,         \* bytes the BoundedReader has passed on and hashed
    committed,      \* size and digest in the manifest
    object,         \* the stored object: its size and the altered byte, 0 for none
    damaged,        \* the stored object was ever damaged
    got,            \* bytes the parser has read
    tainted         \* the altered byte is among them

inputs == <<body, maxBytes, expected, parserMax>>
stream == <<inputs, pc, verdict, copied, committed, object, damaged, got, tainted>>

StreamInit ==
    /\ body \in Sizes /\ maxBytes \in 1..MaxSize /\ parserMax \in 1..MaxSize
    /\ expected \in Sizes \cup {NoSize}
    /\ pc = "copying" /\ verdict = "none"
    /\ copied = 0 /\ committed = 0 /\ got = 0
    /\ object = [size |-> 0, altered |-> 0]
    /\ damaged = FALSE /\ tainted = FALSE

Least(a, b) == IF a < b THEN a ELSE b
Refuse(why) == pc' = "refused" /\ verdict' = why

-----------------------------------------------------------------------------
(* Upload                                                                  *)

\* BoundedReader.Read after its source returned n bytes.
BoundedRead(n, eof) ==
    LET remaining == maxBytes - copied
    IN  IF n > remaining
        THEN Refuse("size_limit_exceeded") /\ UNCHANGED copied
        ELSE /\ copied' = copied + n
             /\ pc' = (IF eof THEN "publishing" ELSE "copying")
             /\ UNCHANGED verdict

\* io.Copy, or the uploader, reads; the source is asked for one byte more than fits.
CopyRead ==
    /\ pc = "copying"
    /\ \E buffer \in 1..BufferSize, eof \in BOOLEAN :
         \E n \in 0..Least(Least(buffer, maxBytes - copied + 1), body - copied) :
            /\ eof => copied + n = body
            /\ BoundedRead(n, eof)
    /\ UNCHANGED <<inputs, committed, object, damaged, got, tainted>>

\* The source fails, the context ends, or the store fails.
CopyFails ==
    /\ pc \in {"copying", "publishing"}
    /\ Refuse("released")
    /\ UNCHANGED <<inputs, copied, committed, object, damaged, got, tainted>>

\* Put after EOF: Result, VerifyExpected, and the manifest.
Publish ==
    /\ pc = "publishing"
    /\ IF expected \in {NoSize, copied}
       THEN /\ pc' = "stored" /\ UNCHANGED verdict
            /\ committed' = copied
            /\ object' = [size |-> copied, altered |-> 0]
       ELSE Refuse("content_mismatch") /\ UNCHANGED <<committed, object>>
    /\ UNCHANGED <<inputs, copied, damaged, got, tainted>>

\* The medium truncates, extends or alters the object, also while it is read.
Damage ==
    /\ pc \in {"stored", "reading"} /\ ~damaged
    /\ \E size \in Sizes : \E altered \in 0..size : object' = [size |-> size, altered |-> altered]
    /\ damaged' = TRUE
    /\ UNCHANGED <<inputs, pc, verdict, copied, committed, got, tainted>>

-----------------------------------------------------------------------------
(* Processing                                                              *)

\* The processor checks the committed size against the limit and opens the object.
OpenReport ==
    /\ pc = "stored"
    /\ IF committed > maxBytes
       THEN Refuse("integrity")
       ELSE pc' = "reading" /\ UNCHANGED verdict
    /\ UNCHANGED <<inputs, copied, committed, object, damaged, got, tainted>>

\* verifiedReader.Read after its source returned n bytes.
VerifiedRead(n, eof) ==
    /\ got' = got + n
    /\ tainted' = (tainted \/ object.altered \in (got + 1)..(got + n))
    /\ IF \/ got' > committed
          \/ eof /\ (got' # committed \/ tainted')
       THEN Refuse("integrity")
       ELSE pc' = (IF eof THEN "ended" ELSE "reading") /\ UNCHANGED verdict

\* Mutant: the limit of the LimitReader is MaxBytes.
ParseReadToLimit ==
    /\ pc = "reading"
    /\ \/ got = parserMax /\ pc' = "ended" /\ UNCHANGED <<verdict, got, tainted>>
       \/ \E buffer \in 1..BufferSize, eof \in BOOLEAN :
            \E n \in 0..Least(buffer, parserMax - got) :
               /\ got < parserMax
               /\ n > 0 => got + n <= object.size
               /\ eof => got + n >= object.size
               /\ VerifiedRead(n, eof)
    /\ UNCHANGED <<inputs, copied, committed, object, damaged>>

\* ReadAll reads through a LimitReader of MaxBytes+1, which reports EOF of its own
\* once that many bytes have passed.
ParseRead ==
    /\ pc = "reading"
    /\ \/ got = parserMax + 1 /\ pc' = "ended" /\ UNCHANGED <<verdict, got, tainted>>
       \/ \E buffer \in 1..BufferSize, eof \in BOOLEAN :
            \E n \in 0..Least(buffer, parserMax + 1 - got) :
               /\ got < parserMax + 1
               /\ n > 0 => got + n <= object.size
               /\ eof => got + n >= object.size
               /\ VerifiedRead(n, eof)
    /\ UNCHANGED <<inputs, copied, committed, object, damaged>>

\* A read fails, or the context ends: the job is retried or cancelled.
ParseReadFails ==
    /\ pc = "reading"
    /\ Refuse("retried")
    /\ UNCHANGED <<inputs, copied, committed, object, damaged, got, tainted>>

\* The length of the data decides.
ParseEnds ==
    /\ pc = "ended"
    /\ IF got > parserMax
       THEN Refuse("input_too_large")
       ELSE pc' = "parsed" /\ UNCHANGED verdict
    /\ UNCHANGED <<inputs, copied, committed, object, damaged, got, tainted>>

StreamNext ==
    \/ CopyRead \/ CopyFails \/ Publish \/ Damage
    \/ OpenReport \/ ParseRead \/ ParseReadFails \/ ParseEnds

StreamSpec == StreamInit /\ [][StreamNext]_stream

-----------------------------------------------------------------------------
(* Properties                                                              *)

\* What the parser works on is the client's body, whole and unaltered, and within
\* both limits, however Reads were cut and whatever happened to the object.  And no
\* refusal is mistaken: a body that fits is not found too large, by the upload or by
\* the parser, and an undamaged object does not fail its verification.
ReadWhole ==
    /\ pc = "parsed" => /\ got = body /\ ~tainted
                        /\ body <= maxBytes /\ body <= parserMax
    /\ verdict = "size_limit_exceeded" => body > maxBytes
    /\ verdict = "content_mismatch" => expected # body
    /\ verdict = "input_too_large" => body > parserMax
    /\ verdict = "integrity" => damaged
=============================================================================
