---------------------------- MODULE ReportProofs ----------------------------
(***************************************************************************)
(* ReadWhole for bodies, limits and buffers of every size; ValidatorExact  *)
(* for texts of every length and nesting and all limits; WarningsAccounted *)
(* for every document.                                                     *)
(*                                                                         *)
(* The validator's proof relates the stack of validateJSON's recursion to  *)
(* the positions of the tokens, Tracks.  Appending one token changes       *)
(* neither the nesting of the tokens before it nor what is inside the      *)
(* containers that are closed already, so one step suffices and nothing is *)
(* proved by induction over the text.                                      *)
(***************************************************************************)
EXTENDS SarifParser, FiniteSetTheorems, TLAPS

-----------------------------------------------------------------------------
(* ReportStream *)

Stages == {"copying", "publishing", "stored", "reading", "ended", "parsed", "refused"}

(* The values of the variables. *)
StreamTypes ==
    /\ body \in Nat /\ maxBytes \in Nat /\ parserMax \in Nat
    /\ expected \in Nat \cup {NoSize}
    /\ pc \in Stages
    /\ copied \in Nat /\ committed \in Nat /\ got \in Nat
    /\ object \in [size : Nat, altered : Nat]
    /\ damaged \in BOOLEAN /\ tainted \in BOOLEAN

(* The inductive invariant.  The copy never gets ahead of the body or the   *)
(* limit; once EOF was seen it is the body.  The parser never holds more    *)
(* than was committed, and its input ends either one byte beyond its limit  *)
(* or with the verified EOF: this is why the limit of the LimitReader is    *)
(* MaxBytes+1.                                                              *)
StreamInv ==
    /\ StreamTypes
    /\ copied <= body /\ copied <= maxBytes
    /\ pc = "copying" => got = 0 /\ ~tainted
    /\ pc \in {"copying", "publishing", "stored", "reading", "ended", "parsed"} => verdict = "none"
    /\ pc = "publishing" => copied = body /\ got = 0 /\ ~tainted
    /\ pc = "stored" => got = 0 /\ ~tainted
    /\ pc \in {"stored", "reading", "ended", "parsed"} => copied = body /\ committed = copied
    /\ pc \in {"reading", "ended", "parsed"} => got <= committed /\ got <= parserMax + 1
    /\ pc \in {"stored", "reading"} /\ ~damaged =>
          object = [size |-> committed, altered |-> 0] /\ ~tainted
    /\ pc = "ended" => got = parserMax + 1 \/ (got = committed /\ ~tainted)
    /\ ReadWhole

(* A fresh stream satisfies the invariant. *)
LEMMA StreamInitially == StreamInit => StreamInv
  <1> SUFFICES ASSUME StreamInit PROVE StreamInv
    OBVIOUS
  <1>1. StreamTypes
    <2>1. body \in Nat /\ maxBytes \in Nat /\ parserMax \in Nat /\ expected \in Nat \cup {NoSize}
      BY StreamConstants DEF StreamInit, Sizes
    <2>2. QED
      BY <2>1, Zenon DEF StreamInit, StreamTypes, Stages
  <1>2. copied <= body /\ copied <= maxBytes
    BY <1>1 DEF StreamInit, StreamTypes
  <1>3. QED
    BY <1>1, <1>2 DEF StreamInit, StreamInv, ReadWhole

(* The upload. *)
LEMMA CopyReadStep == StreamInv /\ CopyRead => StreamInv'
  <1> SUFFICES ASSUME StreamInv, CopyRead PROVE StreamInv'
    OBVIOUS
  <1> USE DEF StreamInv, StreamTypes, Stages, ReadWhole, NoSize
  <1>1. PICK buffer \in 1..BufferSize, eof \in BOOLEAN :
           \E n \in 0..Least(Least(buffer, maxBytes - copied + 1), body - copied) :
              /\ eof => copied + n = body
              /\ BoundedRead(n, eof)
    BY DEF CopyRead
  <1>2. PICK n \in 0..Least(Least(buffer, maxBytes - copied + 1), body - copied) :
              /\ eof => copied + n = body
              /\ BoundedRead(n, eof)
    BY <1>1
  <1>3. n \in Nat /\ copied + n <= body
    BY <1>2, StreamConstants DEF Least
  <1>4. /\ pc = "copying"
        /\ UNCHANGED <<inputs, committed, object, damaged, got, tainted>>
    BY DEF CopyRead
  <1>5. CASE n > maxBytes - copied
    BY <1>2, <1>3, <1>4, <1>5 DEF BoundedRead, Refuse, inputs
  <1>6. CASE ~(n > maxBytes - copied)
    BY <1>2, <1>3, <1>4, <1>6 DEF BoundedRead, Refuse, inputs
  <1>7. QED
    BY <1>5, <1>6

(* The end of the upload, and damage to the stored bytes, keep it. *)
LEMMA UploadStep == StreamInv /\ (CopyFails \/ Publish \/ Damage) => StreamInv'
  <1> USE DEF StreamInv, StreamTypes, Stages, ReadWhole, NoSize, inputs, Refuse
  <1>1. StreamInv /\ CopyFails => StreamInv'
    BY DEF CopyFails
  <1>2. StreamInv /\ Publish => StreamInv'
    BY DEF Publish
  <1>3. StreamInv /\ Damage => StreamInv'
    BY StreamConstants DEF Damage, Sizes
  <1>4. QED
    BY <1>1, <1>2, <1>3

(* Processing. *)
LEMMA ParseReadStep == StreamInv /\ ParseRead => StreamInv'
  <1> SUFFICES ASSUME StreamInv, ParseRead PROVE StreamInv'
    OBVIOUS
  <1> USE DEF StreamInv, StreamTypes, Stages, ReadWhole, NoSize
  <1>1. /\ pc = "reading"
        /\ UNCHANGED <<body, maxBytes, expected, parserMax, copied, committed, object, damaged>>
    BY DEF ParseRead, inputs
  <1>2. CASE got = parserMax + 1 /\ pc' = "ended" /\ UNCHANGED <<verdict, got, tainted>>
    BY <1>1, <1>2, Zenon
  <1>3. ASSUME NEW buffer \in 1..BufferSize, NEW eof \in BOOLEAN,
               NEW n \in 0..Least(buffer, parserMax + 1 - got),
               got < parserMax + 1,
               n > 0 => got + n <= object.size,
               eof => got + n >= object.size,
               VerifiedRead(n, eof)
        PROVE  StreamInv'
    <2>1. n \in Nat /\ got + n <= parserMax + 1
      BY <1>3, StreamConstants DEF Least
    <2>2. got' = got + n /\ tainted' \in BOOLEAN
      BY <1>3 DEF VerifiedRead
    <2>3. CASE got' > committed \/ (eof /\ (got' # committed \/ tainted'))
      <3>1. pc' = "refused" /\ verdict' = "integrity"
        BY <1>3, <2>3 DEF VerifiedRead, Refuse
      <3>2. damaged
        <4> SUFFICES ASSUME ~damaged PROVE FALSE
          OBVIOUS
        <4>1. object.size = committed /\ object.altered = 0 /\ ~tainted
          BY <1>1
        <4>2. ~tainted'
          BY <1>3, <4>1, <2>1 DEF VerifiedRead
        <4>3. got' <= committed
          BY <1>1, <1>3, <2>1, <2>2, <4>1
        <4>4. eof => got' = committed
          BY <1>3, <2>1, <2>2, <4>1, <4>3
        <4>5. QED
          BY <2>3, <4>2, <4>3, <4>4, <2>1, <2>2
      <3>3. QED
        BY <1>1, <2>1, <2>2, <3>1, <3>2
    <2>4. CASE ~(got' > committed \/ (eof /\ (got' # committed \/ tainted')))
      <3>1. pc' = (IF eof THEN "ended" ELSE "reading") /\ verdict' = verdict
        BY <1>3, <2>4, Zenon DEF VerifiedRead
      <3>2. ~damaged => ~tainted'
        BY <1>1, <1>3, <2>1 DEF VerifiedRead
      <3>3. got' <= committed /\ (eof => got' = committed /\ ~tainted')
        BY <2>1, <2>2, <2>4
      <3>4. QED
        BY <1>1, <2>1, <2>2, <3>1, <3>2, <3>3
    <2>5. QED
      BY <2>3, <2>4
  <1>4. QED
    BY <1>2, <1>3 DEF ParseRead

(* Opening the report, and the ends of Parse's reading, keep it. *)
LEMMA ProcessingStep ==
    StreamInv /\ (OpenReport \/ ParseReadFails \/ ParseEnds) => StreamInv'
  <1> USE DEF StreamInv, StreamTypes, Stages, ReadWhole, NoSize, inputs, Refuse
  <1>1. StreamInv /\ OpenReport => StreamInv'
    BY DEF OpenReport
  <1>2. StreamInv /\ ParseReadFails => StreamInv'
    BY DEF ParseReadFails
  <1>3. StreamInv /\ ParseEnds => StreamInv'
    BY DEF ParseEnds
  <1>4. QED
    BY <1>1, <1>2, <1>3

(* Whatever the sizes of body, limits and buffers, and however the Reads    *)
(* are cut, the parser works on the client's whole, unaltered body, and no  *)
(* refusal is mistaken.                                                     *)
THEOREM ReportReadWhole == StreamSpec => []ReadWhole
  <1>1. StreamInv /\ [StreamNext]_stream => StreamInv'
    <2>1. StreamInv /\ UNCHANGED stream => StreamInv'
      BY DEF StreamInv, StreamTypes, ReadWhole, stream, inputs
    <2>2. QED
      BY <2>1, CopyReadStep, UploadStep, ParseReadStep, ProcessingStep, Zenon DEF StreamNext
  <1>2. StreamInv => ReadWhole
    BY DEF StreamInv
  <1>3. QED
    BY StreamInitially, <1>1, <1>2, PTL DEF StreamSpec

(* The parser only takes over what the stream has delivered: the bytes it   *)
(* parses are the client's whole body in the composed specification too.    *)
THEOREM DocumentReadWhole == ReportSpec => []ReadWhole
  <1>1. ReportInit => StreamInit
    BY DEF ReportInit
  <1>2. [ReportNext]_<<stream, parser>> => [StreamNext]_stream
    BY DEF ReportNext
  <1>3. QED
    BY <1>1, <1>2, ReportReadWhole, PTL DEF ReportSpec, StreamSpec

(* The text with one token more. *)
LEMMA AppendedText ==
    ASSUME NEW t \in Seq(Token), NEW x \in Token
    PROVE  /\ Append(t, x) \in Seq(Token) /\ Len(Append(t, x)) = Len(t) + 1
           /\ Len(t) \in Nat
           /\ \A i \in 1..Len(t) : Append(t, x)[i] = t[i]
           /\ Append(t, x)[Len(t) + 1] = x
  OBVIOUS

(* The delimiters before a position can be counted. *)
LEMMA PrefixFinite ==
    ASSUME NEW t, NEW i \in Nat
    PROVE  /\ IsFiniteSet({j \in 1..(i - 1) : Opening(t[j])})
           /\ IsFiniteSet({j \in 1..(i - 1) : Closing(t[j])})
           /\ Cardinality({j \in 1..(i - 1) : Opening(t[j])}) \in Nat
           /\ Cardinality({j \in 1..(i - 1) : Closing(t[j])}) \in Nat
           /\ Nesting(t, i) \in Int
  <1>1. IsFiniteSet(1..(i - 1))
    BY FS_Interval
  <1>2. /\ IsFiniteSet({j \in 1..(i - 1) : Opening(t[j])})
        /\ IsFiniteSet({j \in 1..(i - 1) : Closing(t[j])})
    BY <1>1, FS_Subset, Zenon
  <1>3. /\ Cardinality({j \in 1..(i - 1) : Opening(t[j])}) \in Nat
        /\ Cardinality({j \in 1..(i - 1) : Closing(t[j])}) \in Nat
    BY <1>2, FS_CardinalityType, Zenon
  <1>4. QED
    BY <1>2, <1>3 DEF Nesting

(* A new token does not change the nesting of the positions up to its own. *)
LEMMA NestingBefore ==
    ASSUME NEW t \in Seq(Token), NEW x \in Token, NEW i \in 1..(Len(t) + 1)
    PROVE  Nesting(Append(t, x), i) = Nesting(t, i)
  <1>1. \A j \in 1..(i - 1) : Append(t, x)[j] = t[j]
    BY AppendedText
  <1>2. /\ {j \in 1..(i - 1) : Opening(Append(t, x)[j])} = {j \in 1..(i - 1) : Opening(t[j])}
        /\ {j \in 1..(i - 1) : Closing(Append(t, x)[j])} = {j \in 1..(i - 1) : Closing(t[j])}
    BY <1>1, Zenon
  <1>3. QED
    BY <1>2, Zenon DEF Nesting

(* How the new token changes the nesting after it. *)
LEMMA NestingAfter ==
    ASSUME NEW t \in Seq(Token), NEW x \in Token
    PROVE  Nesting(Append(t, x), Len(t) + 2) =
             IF Opening(x) THEN Nesting(t, Len(t) + 1) + 1
             ELSE IF Closing(x) THEN Nesting(t, Len(t) + 1) - 1
             ELSE Nesting(t, Len(t) + 1)
  <1> DEFINE u == Append(t, x)
             n == Len(t)
             O == {j \in 1..n : Opening(t[j])}
             C == {j \in 1..n : Closing(t[j])}
             P == {j \in 1..(n + 1) : Opening(u[j])}
             D == {j \in 1..(n + 1) : Closing(u[j])}
  <1>1. n \in Nat /\ u[n + 1] = x /\ \A i \in 1..n : u[i] = t[i]
    BY AppendedText
  <1>2. (n + 1) - 1 = n /\ (n + 2) - 1 = n + 1
    BY <1>1
  <1>3. Nesting(t, n + 1) = Cardinality(O) - Cardinality(C)
    BY <1>2 DEF Nesting
  <1>4. Nesting(u, n + 2) = Cardinality(P) - Cardinality(D)
    BY <1>2, Zenon DEF Nesting
  <1>5. IsFiniteSet(O) /\ IsFiniteSet(C) /\ Cardinality(O) \in Nat /\ Cardinality(C) \in Nat
    <2>1. n + 1 \in Nat
      BY <1>1
    <2>2. QED
      BY <1>2, <2>1, PrefixFinite, Zenon
  <1>6. n + 1 \notin O /\ n + 1 \notin C
    BY <1>1
  <1>7. P = IF Opening(x) THEN O \cup {n + 1} ELSE O
    <2>1. \A j : j \in 1..(n + 1) <=> j \in 1..n \/ j = n + 1
      BY <1>1
    <2>2. QED
      BY <1>1, <2>1, Zenon
  <1>8. D = IF Closing(x) THEN C \cup {n + 1} ELSE C
    <2>1. \A j : j \in 1..(n + 1) <=> j \in 1..n \/ j = n + 1
      BY <1>1
    <2>2. QED
      BY <1>1, <2>1, Zenon
  <1>9. ~(Opening(x) /\ Closing(x))
    BY DEF Opening, Closing
  <1> HIDE DEF u, n, O, C, P, D
  <1>10. Cardinality(P) = IF Opening(x) THEN Cardinality(O) + 1 ELSE Cardinality(O)
    <2>1. Cardinality(O \cup {n + 1}) = Cardinality(O) + 1
      BY <1>5, <1>6, FS_AddElement, Zenon
    <2>2. QED
      BY <1>7, <2>1
  <1>11. Cardinality(D) = IF Closing(x) THEN Cardinality(C) + 1 ELSE Cardinality(C)
    <2>1. Cardinality(C \cup {n + 1}) = Cardinality(C) + 1
      BY <1>5, <1>6, FS_AddElement, Zenon
    <2>2. QED
      BY <1>8, <2>1
  <1>12. Nesting(u, n + 2) = IF Opening(x) THEN Nesting(t, n + 1) + 1
             ELSE IF Closing(x) THEN Nesting(t, n + 1) - 1 ELSE Nesting(t, n + 1)
    BY <1>3, <1>4, <1>5, <1>9, <1>10, <1>11
  <1>13. QED
    BY <1>12 DEF u, n

(* The container that token i opens is not closed by the end of the text,   *)
(* and the next token comes directly in it.                                 *)
StillOpen(text, i) == \A k \in (i + 1)..(Len(text) + 1) : Nesting(text, k) > Nesting(text, i)
Innermost(text, i) ==
    StillOpen(text, i) /\ Nesting(text, Len(text) + 1) = Nesting(text, i) + 1

(* What is directly inside a container can be counted. *)
LEMMA InsideFinite ==
    ASSUME NEW t \in Seq(Token), NEW i \in Nat
    PROVE  /\ IsFiniteSet(Inside(t, i)) /\ IsFiniteSet(MemberNames(t, i))
           /\ Cardinality(Inside(t, i)) \in Nat /\ Cardinality(MemberNames(t, i)) \in Nat
           /\ Inside(t, i) \subseteq 1..Len(t) /\ MemberNames(t, i) \subseteq Inside(t, i)
  <1>1. Len(t) \in Nat
    OBVIOUS
  <1>2. Inside(t, i) \subseteq (i + 1)..Len(t) /\ MemberNames(t, i) \subseteq Inside(t, i)
    BY Zenon DEF Inside, MemberNames
  <1>3. IsFiniteSet((i + 1)..Len(t))
    BY <1>1, FS_Interval
  <1>4. IsFiniteSet(Inside(t, i))
    BY <1>2, <1>3, FS_Subset, Zenon
  <1>5. IsFiniteSet(MemberNames(t, i))
    BY <1>2, <1>4, FS_Subset, Zenon
  <1>6. Cardinality(Inside(t, i)) \in Nat /\ Cardinality(MemberNames(t, i)) \in Nat
    BY <1>4, <1>5, FS_CardinalityType, Zenon
  <1>7. Inside(t, i) \subseteq 1..Len(t)
    BY <1>1, <1>2
  <1>8. QED
    BY <1>2, <1>4, <1>5, <1>6, <1>7

(* A new token is inside the innermost open container only, unless it       *)
(* closes it.                                                               *)
LEMMA InsideAppended ==
    ASSUME NEW t \in Seq(Token), NEW x \in Token, NEW i \in 1..Len(t)
    PROVE  Inside(Append(t, x), i) =
             IF Innermost(t, i) /\ ~Closing(x) THEN Inside(t, i) \cup {Len(t) + 1}
             ELSE Inside(t, i)
  <1> DEFINE u == Append(t, x)
             n == Len(t)
  <1>1. /\ n \in Nat /\ Len(u) = n + 1 /\ u[n + 1] = x /\ \A j \in 1..n : u[j] = t[j]
    BY AppendedText
  <1>2. \A k \in 1..(n + 1) : Nesting(u, k) = Nesting(t, k)
    BY NestingBefore
  <1> HIDE DEF u
  <1>3. ASSUME NEW j \in (i + 1)..n
        PROVE  j \in Inside(u, i) <=> j \in Inside(t, i)
    <2>1. j \in 1..n /\ j \in 1..(n + 1) /\ i \in 1..(n + 1) /\ j \in (i + 1)..(n + 1)
      BY <1>1
    <2>2. \A k \in (i + 1)..j : k \in 1..(n + 1)
      BY <1>1
    <2>3. QED
      BY <1>1, <1>2, <2>1, <2>2 DEF Inside
  <1>4. n + 1 \in Inside(u, i) <=> Innermost(t, i) /\ ~Closing(x)
    <2>1. n + 1 \in (i + 1)..(n + 1) /\ i \in 1..(n + 1) /\ n + 1 \in 1..(n + 1)
      BY <1>1
    <2>2. \A k \in (i + 1)..(n + 1) : k \in 1..(n + 1)
      BY <1>1
    <2>3. (\A k \in (i + 1)..(n + 1) : Nesting(u, k) > Nesting(u, i)) <=> StillOpen(t, i)
      BY <1>2, <2>1, <2>2, Zenon DEF StillOpen
    <2>4. Nesting(u, n + 1) = Nesting(u, i) + 1 <=> Nesting(t, n + 1) = Nesting(t, i) + 1
      BY <1>2, <2>1, Zenon
    <2>5. n + 1 \in Inside(u, i) <=>
            /\ ~Closing(x) /\ Nesting(u, n + 1) = Nesting(u, i) + 1
            /\ \A k \in (i + 1)..(n + 1) : Nesting(u, k) > Nesting(u, i)
      BY <1>1, <2>1, Zenon DEF Inside
    <2>6. QED
      BY <2>3, <2>4, <2>5, Zenon DEF Innermost
  <1>5. /\ \A j \in Inside(u, i) : j \in (i + 1)..n \/ j = n + 1
        /\ \A j \in Inside(t, i) : j \in (i + 1)..n /\ j # n + 1
    BY <1>1 DEF Inside
  <1>6. Inside(u, i) = IF Innermost(t, i) /\ ~Closing(x) THEN Inside(t, i) \cup {n + 1}
                       ELSE Inside(t, i)
    <2>1. \A j : j \in Inside(u, i) <=>
             j \in Inside(t, i) \/ (j = n + 1 /\ Innermost(t, i) /\ ~Closing(x))
      BY <1>3, <1>4, <1>5
    <2>2. CASE Innermost(t, i) /\ ~Closing(x)
      BY <2>1, <2>2, Zenon
    <2>3. CASE ~(Innermost(t, i) /\ ~Closing(x))
      BY <2>1, <2>3, Zenon
    <2>4. QED
      BY <2>2, <2>3, Zenon
  <1>7. QED
    BY <1>6 DEF u, n

(* A container that has just been opened is empty. *)
LEMMA InsideNew ==
    ASSUME NEW t \in Seq(Token), NEW x \in Token
    PROVE  /\ Inside(Append(t, x), Len(t) + 1) = {}
           /\ MemberNames(Append(t, x), Len(t) + 1) = {}
  <1>1. Len(t) \in Nat /\ Len(Append(t, x)) = Len(t) + 1
    BY AppendedText
  <1>2. (Len(t) + 1 + 1)..(Len(t) + 1) = {}
    BY <1>1
  <1>3. Inside(Append(t, x), Len(t) + 1) = {}
    BY <1>1, <1>2, Zenon DEF Inside
  <1>4. QED
    BY <1>3, Zenon DEF MemberNames

(* A token in the innermost container. *)
LEMMA InsideGrows ==
    ASSUME NEW t \in Seq(Token), NEW x \in Token, NEW i \in 1..Len(t),
           Innermost(t, i), ~Closing(x)
    PROVE  /\ Cardinality(Inside(Append(t, x), i)) = Cardinality(Inside(t, i)) + 1
           /\ MemberNames(Append(t, x), i) =
                IF IsName(x) THEN MemberNames(t, i) \cup {Len(t) + 1} ELSE MemberNames(t, i)
           /\ Cardinality(MemberNames(Append(t, x), i)) =
                IF IsName(x) THEN Cardinality(MemberNames(t, i)) + 1
                ELSE Cardinality(MemberNames(t, i))
  <1> DEFINE u == Append(t, x)
             n == Len(t)
  <1>1. n \in Nat /\ u[n + 1] = x /\ \A j \in 1..n : u[j] = t[j]
    BY AppendedText
  <1>2. Inside(u, i) = Inside(t, i) \cup {n + 1}
    BY InsideAppended
  <1> HIDE DEF u
  <1>3. /\ IsFiniteSet(Inside(t, i)) /\ IsFiniteSet(MemberNames(t, i))
        /\ Inside(t, i) \subseteq 1..n /\ MemberNames(t, i) \subseteq Inside(t, i)
    <2>1. i \in Nat
      BY <1>1
    <2>2. QED
      BY <2>1, InsideFinite, Zenon
  <1>4. n + 1 \notin Inside(t, i) /\ n + 1 \notin MemberNames(t, i)
    BY <1>1, <1>3
  <1>5. Cardinality(Inside(u, i)) = Cardinality(Inside(t, i)) + 1
    <2>1. Cardinality(Inside(t, i) \cup {n + 1}) = Cardinality(Inside(t, i)) + 1
      BY <1>3, <1>4, FS_AddElement, Zenon
    <2>2. QED
      BY <1>2, <2>1, Zenon
  <1>6. \A j \in Inside(t, i) : u[j] = t[j]
    BY <1>1, <1>3
  <1>7. MemberNames(u, i) = IF IsName(x) THEN MemberNames(t, i) \cup {n + 1} ELSE MemberNames(t, i)
    BY <1>1, <1>2, <1>6, Zenon DEF MemberNames
  <1>8. Cardinality(MemberNames(t, i) \cup {n + 1}) = Cardinality(MemberNames(t, i)) + 1
    BY <1>3, <1>4, FS_AddElement, Zenon
  <1>9. QED
    BY <1>5, <1>7, <1>8 DEF u, n

(* A token elsewhere. *)
LEMMA InsideStays ==
    ASSUME NEW t \in Seq(Token), NEW x \in Token, NEW i \in 1..Len(t),
           ~Innermost(t, i) \/ Closing(x)
    PROVE  /\ Inside(Append(t, x), i) = Inside(t, i)
           /\ MemberNames(Append(t, x), i) = MemberNames(t, i)
  <1>1. Inside(Append(t, x), i) = Inside(t, i)
    BY InsideAppended
  <1>2. \A j \in Inside(t, i) : Append(t, x)[j] = t[j]
    BY AppendedText, InsideFinite
  <1>3. QED
    BY <1>1, <1>2, Zenon DEF MemberNames

(* A container stays open but for the delimiter that closes it. *)
LEMMA StillOpenAppended ==
    ASSUME NEW t \in Seq(Token), NEW x \in Token, NEW i \in 1..Len(t)
    PROVE  StillOpen(Append(t, x), i) <=>
             StillOpen(t, i) /\ (Closing(x) => Nesting(t, Len(t) + 1) > Nesting(t, i) + 1)
  <1> DEFINE u == Append(t, x)
             n == Len(t)
  <1>1. n \in Nat /\ Len(u) = n + 1
    BY AppendedText
  <1>2. \A k \in 1..(n + 1) : Nesting(u, k) = Nesting(t, k)
    BY NestingBefore
  <1>3. Nesting(u, n + 2) = IF Opening(x) THEN Nesting(t, n + 1) + 1
             ELSE IF Closing(x) THEN Nesting(t, n + 1) - 1 ELSE Nesting(t, n + 1)
    BY NestingAfter
  <1> HIDE DEF u
  <1>4. /\ \A k : k \in (i + 1)..(Len(u) + 1) <=> k \in (i + 1)..(n + 1) \/ k = n + 2
        /\ n + 1 \in (i + 1)..(n + 1) /\ i \in 1..(n + 1) /\ n + 1 \in 1..(n + 1)
        /\ \A k \in (i + 1)..(n + 1) : k \in 1..(n + 1)
    BY <1>1
  <1>5. Nesting(t, i) \in Int /\ Nesting(t, n + 1) \in Int
    <2>1. i \in Nat /\ n + 1 \in Nat
      BY <1>1
    <2>2. QED
      BY <2>1, PrefixFinite, Zenon
  <1>6. StillOpen(u, i) <=> StillOpen(t, i) /\ Nesting(u, n + 2) > Nesting(t, i)
    BY <1>2, <1>4, Zenon DEF StillOpen
  <1>7. StillOpen(t, i) => Nesting(t, n + 1) > Nesting(t, i)
    BY <1>4, Zenon DEF StillOpen
  <1>8. ~(Opening(x) /\ Closing(x))
    BY DEF Opening, Closing
  <1>9. StillOpen(u, i) <=> StillOpen(t, i) /\ (Closing(x) => Nesting(t, n + 1) > Nesting(t, i) + 1)
    BY <1>3, <1>5, <1>6, <1>7, <1>8
  <1>10. QED
    BY <1>9 DEF u, n

FrameRecord == [kind : {"object", "array"}, count : Nat, seen : SUBSET Names, due : {"next", "value"}]

(* What a frame knows of the container that token i opens. *)
Counts(frame, text, i) ==
    frame.count = Cardinality(IF frame.kind = "object" THEN MemberNames(text, i) ELSE Inside(text, i))
Saw(frame, text, i) ==
    frame.kind = "object" => frame.seen = {text[j].name : j \in MemberNames(text, i)}

(* The stack has one frame for every container that is open, outermost      *)
(* first, and each knows what its own container holds.                      *)
Tracks(stack, text) ==
    /\ Nesting(text, Len(text) + 1) = Len(stack)
    /\ \A k \in 1..Len(stack) : \E i \in 1..Len(text) :
          Opening(text[i]) /\ StillOpen(text, i) /\ Nesting(text, i) = k - 1
    /\ \A i \in 1..Len(text) : Opening(text[i]) /\ StillOpen(text, i) =>
          /\ Nesting(text, i) + 1 \in 1..Len(stack)
          /\ stack[Nesting(text, i) + 1].kind = text[i].type
          /\ Counts(stack[Nesting(text, i) + 1], text, i)
          /\ Saw(stack[Nesting(text, i) + 1], text, i)

(* The count of a frame once a token has been read in its container. *)
CountWith(frame, x) == IF IsName(x) \/ frame.kind = "array" THEN frame.count + 1 ELSE frame.count

(* The nesting of a position is a number. *)
LEMMA NestingInt ==
    ASSUME NEW t \in Seq(Token), NEW i \in 1..(Len(t) + 1)
    PROVE  Nesting(t, i) \in Int
  <1>1. i \in Nat
    OBVIOUS
  <1>2. QED
    BY <1>1, PrefixFinite, Zenon

(* The innermost container is the one of the last frame. *)
LEMMA InnermostIsTop ==
    ASSUME NEW t \in Seq(Token), NEW s \in Seq(FrameRecord), Tracks(s, t),
           NEW i \in 1..Len(t), Opening(t[i]), StillOpen(t, i)
    PROVE  /\ Nesting(t, i) + 1 \in 1..Len(s)
           /\ Innermost(t, i) <=> Nesting(t, i) + 1 = Len(s)
  <1>1. Len(s) \in Nat /\ Nesting(t, i) \in Int
    BY NestingInt, SMTT(60)
  <1>2. QED
    BY <1>1 DEF Tracks, Innermost

(* What the last frame's container holds with one more token. *)
LEMMA TopCounts ==
    ASSUME NEW t \in Seq(Token), NEW s \in Seq(FrameRecord), Tracks(s, t), NEW x \in Token,
           ~Closing(x), NEW i \in 1..Len(t), Opening(t[i]), Innermost(t, i)
    PROVE  /\ Len(s) \in 1..Len(s) /\ Nesting(t, i) + 1 = Len(s)
           /\ s[Len(s)].kind = t[i].type
           /\ CountWith(s[Len(s)], x) =
                Cardinality(IF s[Len(s)].kind = "object" THEN MemberNames(Append(t, x), i)
                            ELSE Inside(Append(t, x), i))
  <1>1. StillOpen(t, i)
    BY DEF Innermost
  <1>2. Len(s) \in 1..Len(s) /\ Nesting(t, i) + 1 = Len(s)
    BY <1>1, InnermostIsTop, Zenon
  <1> DEFINE f == s[Len(s)]
  <1>3. f.kind = t[i].type /\ Counts(f, t, i) /\ f \in FrameRecord
    BY <1>1, <1>2 DEF Tracks
  <1>4. f.kind \in {"object", "array"}
    BY <1>3 DEF FrameRecord
  <1> HIDE DEF f
  <1>5. /\ Cardinality(Inside(Append(t, x), i)) = Cardinality(Inside(t, i)) + 1
        /\ Cardinality(MemberNames(Append(t, x), i)) =
                IF IsName(x) THEN Cardinality(MemberNames(t, i)) + 1
                ELSE Cardinality(MemberNames(t, i))
    BY InsideGrows
  <1>6. CountWith(f, x) = Cardinality(IF f.kind = "object" THEN MemberNames(Append(t, x), i)
                                      ELSE Inside(Append(t, x), i))
    <2>1. CASE f.kind = "object"
      BY <1>3, <1>5, <2>1, Zenon DEF Counts, CountWith
    <2>2. CASE f.kind = "array"
      BY <1>3, <1>5, <2>2 DEF Counts, CountWith
    <2>3. QED
      BY <1>4, <2>1, <2>2, Zenon
  <1>7. QED
    BY <1>2, <1>3, <1>6 DEF f

(* The limits that one more token can exceed. *)
Exceeds(s, x) ==
    \/ Opening(x) /\ Len(s) + 1 > MaxJSONDepth
    \/ x.type \in {"longName", "longString"}
    \/ s # <<>> /\ CountWith(s[Len(s)], x) > (IF s[Len(s)].kind = "object"
                                              THEN MaxObjectMembers ELSE MaxArrayElements)

LimitsAt(text, i) ==
    /\ text[i].type \notin {"longName", "longString"}
    /\ Opening(text[i]) => Nesting(text, i) + 1 <= MaxJSONDepth
    /\ text[i].type = "object" => Cardinality(MemberNames(text, i)) <= MaxObjectMembers
    /\ text[i].type = "array" => Cardinality(Inside(text, i)) <= MaxArrayElements

(* The limits of a text are the limits at its positions. *)
LEMMA LimitsEverywhere ==
    ASSUME NEW t
    PROVE  WithinLimits(t) <=> \A i \in 1..Len(t) : LimitsAt(t, i)
  BY Zenon DEF WithinLimits, LimitsAt

(* A new token leaves the limits of a container alone that it is not in. *)
LEMMA LimitsElsewhere ==
    ASSUME NEW t \in Seq(Token), NEW x \in Token, NEW i \in 1..Len(t),
           ~Innermost(t, i) \/ Closing(x)
    PROVE  LimitsAt(Append(t, x), i) <=> LimitsAt(t, i)
  <1>1. Append(t, x)[i] = t[i]
    BY AppendedText
  <1>2. Nesting(Append(t, x), i) = Nesting(t, i)
    <2>1. i \in 1..(Len(t) + 1)
      OBVIOUS
    <2>2. QED
      BY <2>1, NestingBefore, Zenon
  <1>3. QED
    BY <1>1, <1>2, InsideStays, Zenon DEF LimitsAt

(* The limits of a parser are positive numbers. *)
LEMMA ParserNumbers ==
    /\ MaxJSONDepth \in Nat \ {0} /\ MaxObjectMembers \in Nat \ {0}
    /\ MaxArrayElements \in Nat \ {0} /\ MaxWarnings \in Nat \ {0}
    /\ MaxUnsupportedFieldsPerWarning \in Nat \ {0} /\ MaxFields \in Nat
  BY ParserConstants

(* The limits at the new token itself: the depth is that of the stack. *)
LEMMA LimitsAtNew ==
    ASSUME NEW t \in Seq(Token), NEW x \in Token, NEW s \in Seq(FrameRecord), Tracks(s, t)
    PROVE  LimitsAt(Append(t, x), Len(t) + 1) <=>
             /\ x.type \notin {"longName", "longString"}
             /\ Opening(x) => Len(s) + 1 <= MaxJSONDepth
  <1>1. Append(t, x)[Len(t) + 1] = x /\ Len(t) \in Nat
    BY AppendedText
  <1>2. Nesting(Append(t, x), Len(t) + 1) = Len(s)
    <2>1. Len(t) + 1 \in 1..(Len(t) + 1)
      BY <1>1
    <2>2. QED
      BY <2>1, NestingBefore, Zenon DEF Tracks
  <1>3. /\ Cardinality(Inside(Append(t, x), Len(t) + 1)) = 0
        /\ Cardinality(MemberNames(Append(t, x), Len(t) + 1)) = 0
    BY InsideNew, FS_EmptySet, Zenon
  <1>4. 0 <= MaxObjectMembers /\ 0 <= MaxArrayElements
    BY ParserNumbers
  <1>5. QED
    BY <1>1, <1>2, <1>3, <1>4, Zenon DEF LimitsAt

(* A token that closes nothing exceeds a limit of the text exactly if the   *)
(* check against the stack says so.                                         *)
LEMMA LimitsAppended ==
    ASSUME NEW t \in Seq(Token), NEW s \in Seq(FrameRecord), Tracks(s, t), NEW x \in Token,
           WithinLimits(t), ~Closing(x)
    PROVE  WithinLimits(Append(t, x)) <=> ~Exceeds(s, x)
  <1> DEFINE u == Append(t, x)
             n == Len(t)
             f == s[Len(s)]
             top == CountWith(f, x) > (IF f.kind = "object" THEN MaxObjectMembers ELSE MaxArrayElements)
  <1>1. n \in Nat /\ Len(u) = n + 1 /\ \A j \in 1..n : u[j] = t[j]
    BY AppendedText
  <1>2. \A i \in 1..n : LimitsAt(t, i)
    BY LimitsEverywhere
  <1>3. LimitsAt(u, n + 1) <=> /\ x.type \notin {"longName", "longString"}
                               /\ Opening(x) => Len(s) + 1 <= MaxJSONDepth
    BY LimitsAtNew
  <1>4. ASSUME NEW i \in 1..n, ~(Opening(t[i]) /\ Innermost(t, i))
        PROVE  LimitsAt(u, i)
    <2>1. CASE ~Innermost(t, i)
      BY <1>2, <2>1, LimitsElsewhere, Zenon
    <2>2. CASE ~Opening(t[i])
      BY <1>1, <1>2, <2>2, Zenon DEF LimitsAt, Opening
    <2>3. QED
      BY <1>4, <2>1, <2>2
  <1>5. ASSUME NEW i \in 1..n, Opening(t[i]), Innermost(t, i)
        PROVE  LimitsAt(u, i) <=> ~top
    <2>1. /\ f.kind = t[i].type
          /\ CountWith(f, x) = Cardinality(IF f.kind = "object" THEN MemberNames(u, i) ELSE Inside(u, i))
      BY <1>5, TopCounts, Zenon
    <2>2. u[i] = t[i] /\ t[i].type \in {"object", "array"}
      BY <1>1, <1>5 DEF Opening
    <2>3. Nesting(u, i) = Nesting(t, i)
      <3>1. i \in 1..(n + 1)
        BY <1>1
      <3>2. QED
        BY <3>1, NestingBefore, Zenon
    <2>4. t[i].type \notin {"longName", "longString"} /\ Nesting(t, i) + 1 <= MaxJSONDepth
      BY <1>2, <1>5, Zenon DEF LimitsAt
    <2>5. i \in Nat /\ u \in Seq(Token)
      BY <1>1, AppendedText
    <2>6. Cardinality(MemberNames(u, i)) \in Nat /\ Cardinality(Inside(u, i)) \in Nat
      BY <2>5, InsideFinite, Zenon
    <2> HIDE DEF u, f
    <2>7. CASE t[i].type = "object"
      BY <2>1, <2>2, <2>3, <2>4, <2>6, <2>7, ParserNumbers, SMTT(60) DEF LimitsAt
    <2>8. CASE t[i].type = "array"
      BY <2>1, <2>2, <2>3, <2>4, <2>6, <2>8, ParserNumbers DEF LimitsAt
    <2>9. QED
      BY <2>2, <2>7, <2>8, Zenon
  <1>6. s # <<>> <=> \E i \in 1..n : Opening(t[i]) /\ Innermost(t, i)
    <2>1. ASSUME s # <<>> PROVE \E i \in 1..n : Opening(t[i]) /\ Innermost(t, i)
      <3>1. Len(s) \in 1..Len(s)
        BY <2>1
      <3>2. PICK i \in 1..n : Opening(t[i]) /\ StillOpen(t, i) /\ Nesting(t, i) = Len(s) - 1
        BY <3>1, Zenon DEF Tracks
      <3>3. Nesting(t, i) + 1 = Len(s)
        BY <3>1, <3>2
      <3>4. QED
        BY <3>2, <3>3, InnermostIsTop
    <2>2. ASSUME NEW i \in 1..n, Opening(t[i]), Innermost(t, i) PROVE s # <<>>
      <3>1. Len(s) \in 1..Len(s)
        BY <2>2, TopCounts
      <3>2. QED
        BY <3>1, SMTT(60)
    <2>3. QED
      BY <2>1, <2>2
  <1>7. WithinLimits(u) <=> LimitsAt(u, n + 1) /\ \A i \in 1..n : LimitsAt(u, i)
    <2>1. \A i : i \in 1..(n + 1) <=> i \in 1..n \/ i = n + 1
      BY <1>1
    <2>2. WithinLimits(u) <=> \A i \in 1..(n + 1) : LimitsAt(u, i)
      BY <1>1, LimitsEverywhere, Zenon
    <2>3. QED
      BY <2>1, <2>2, Zenon
  <1> HIDE DEF u, top
  <1>8. (\A i \in 1..n : LimitsAt(u, i)) <=> ~(s # <<>> /\ top)
    BY <1>4, <1>5, <1>6, Zenon
  <1>9. Exceeds(s, x) <=> \/ Opening(x) /\ Len(s) + 1 > MaxJSONDepth
                          \/ x.type \in {"longName", "longString"}
                          \/ s # <<>> /\ top
    BY Zenon DEF Exceeds, top
  <1>10. Len(s) + 1 > MaxJSONDepth <=> ~(Len(s) + 1 <= MaxJSONDepth)
    BY ParserNumbers
  <1>11. QED
    BY <1>3, <1>7, <1>8, <1>9, <1>10, Zenon DEF u

(* Closing a container exceeds no limit. *)
LEMMA LimitsClosed ==
    ASSUME NEW t \in Seq(Token), NEW s \in Seq(FrameRecord), Tracks(s, t), NEW x \in Token,
           WithinLimits(t), Closing(x)
    PROVE  WithinLimits(Append(t, x))
  <1>1. Len(t) \in Nat /\ Len(Append(t, x)) = Len(t) + 1
    BY AppendedText
  <1>2. \A i \in 1..Len(t) : LimitsAt(Append(t, x), i)
    BY LimitsEverywhere, LimitsElsewhere
  <1>3. LimitsAt(Append(t, x), Len(t) + 1)
    BY LimitsAtNew DEF Closing, Opening
  <1>4. \A i \in 1..(Len(t) + 1) : i \in 1..Len(t) \/ i = Len(t) + 1
    BY <1>1
  <1>5. QED
    BY <1>1, <1>2, <1>3, <1>4, LimitsEverywhere, Zenon

-----------------------------------------------------------------------------
(* Names. *)

DistinctAt(text, i) ==
    text[i].type = "object" => \A j, k \in MemberNames(text, i) : text[j] = text[k] => j = k

(* The names of a text are distinct if they are in every object. *)
LEMMA DistinctEverywhere ==
    ASSUME NEW t
    PROVE  NamesDistinct(t) <=> \A i \in 1..Len(t) : DistinctAt(t, i)
  BY Zenon DEF NamesDistinct, DistinctAt

(* An object without a new name keeps its names distinct. *)
LEMMA DistinctElsewhere ==
    ASSUME NEW t \in Seq(Token), NEW x \in Token, NEW i \in 1..Len(t), DistinctAt(t, i),
           MemberNames(Append(t, x), i) = MemberNames(t, i)
    PROVE  DistinctAt(Append(t, x), i)
  <1>1. Append(t, x)[i] = t[i]
    BY AppendedText
  <1>2. i \in Nat
    OBVIOUS
  <1>3. \A j \in MemberNames(t, i) : Append(t, x)[j] = t[j]
    BY <1>2, AppendedText, InsideFinite
  <1>4. QED
    BY <1>1, <1>3, Zenon DEF DistinctAt

(* An object that has just been opened has no names. *)
LEMMA DistinctNew ==
    ASSUME NEW t \in Seq(Token), NEW x \in Token
    PROVE  DistinctAt(Append(t, x), Len(t) + 1)
  BY InsideNew, Zenon DEF DistinctAt

(* The old objects decide whether the names of the longer text are          *)
(* distinct.                                                                *)
LEMMA NamesAppended ==
    ASSUME NEW t \in Seq(Token), NEW x \in Token,
           \A i \in 1..Len(t) : DistinctAt(Append(t, x), i)
    PROVE  NamesDistinct(Append(t, x))
  <1>1. Len(t) \in Nat /\ Len(Append(t, x)) = Len(t) + 1
    BY AppendedText
  <1>2. \A i \in 1..(Len(t) + 1) : i \in 1..Len(t) \/ i = Len(t) + 1
    BY <1>1
  <1>3. QED
    BY <1>1, <1>2, DistinctNew, DistinctEverywhere, Zenon

(* A token that is no name leaves the names of every object distinct. *)
LEMMA NamesKept ==
    ASSUME NEW t \in Seq(Token), NEW x \in Token, NamesDistinct(t), ~IsName(x)
    PROVE  NamesDistinct(Append(t, x))
  <1>1. ASSUME NEW i \in 1..Len(t) PROVE DistinctAt(Append(t, x), i)
    <2>1. MemberNames(Append(t, x), i) = MemberNames(t, i)
      BY InsideGrows, InsideStays, Zenon
    <2>2. QED
      BY <2>1, DistinctElsewhere, DistinctEverywhere, Zenon
  <1>2. QED
    BY <1>1, NamesAppended

(* A name leaves them distinct exactly if the frame has not seen it. *)
LEMMA NamesDecided ==
    ASSUME NEW t \in Seq(Token), NEW s \in Seq(FrameRecord), Tracks(s, t), NEW x \in Token,
           NamesDistinct(t), WithinLimits(t), x.type = "name",
           Len(s) > 0, s[Len(s)].kind = "object"
    PROVE  NamesDistinct(Append(t, x)) <=> x.name \notin s[Len(s)].seen
  <1> DEFINE u == Append(t, x)
             n == Len(t)
             f == s[Len(s)]
  <1>1. n \in Nat /\ Len(u) = n + 1 /\ u[n + 1] = x /\ \A j \in 1..n : u[j] = t[j]
    BY AppendedText
  <1>2. IsName(x) /\ ~Closing(x) /\ ~Opening(x)
    BY DEF IsName, Closing, Opening
  <1>3. \A i \in 1..n : DistinctAt(t, i)
    BY DistinctEverywhere, Zenon
  <1>4. ASSUME NEW i \in 1..n, ~(Opening(t[i]) /\ Innermost(t, i)) PROVE DistinctAt(u, i)
    <2>1. CASE ~Innermost(t, i)
      BY <1>3, <2>1, InsideStays, DistinctElsewhere, Zenon
    <2>2. CASE ~Opening(t[i])
      BY <1>1, <2>2 DEF DistinctAt, Opening
    <2>3. QED
      BY <1>4, <2>1, <2>2, Zenon
  <1>5. ASSUME NEW i \in 1..n, Opening(t[i]), Innermost(t, i)
        PROVE  DistinctAt(u, i) <=> x.name \notin f.seen
    <2>1. f.kind = t[i].type /\ Nesting(t, i) + 1 = Len(s)
      BY <1>2, <1>5, TopCounts, Zenon
    <2>2. f.seen = {t[j].name : j \in MemberNames(t, i)}
      BY <1>5, <2>1, Zenon DEF Tracks, Saw, Innermost
    <2>3. MemberNames(u, i) = MemberNames(t, i) \cup {n + 1}
      BY <1>2, <1>5, InsideGrows, Zenon
    <2>4. \A j \in MemberNames(t, i) : j \in 1..n /\ j # n + 1 /\ u[j] = t[j] /\ IsName(t[j])
      <3>1. i \in Nat
        BY <1>1
      <3>2. MemberNames(t, i) \subseteq 1..n
        BY <3>1, InsideFinite, Zenon
      <3>3. QED
        BY <1>1, <3>2 DEF MemberNames
    <2>5. \A j \in MemberNames(t, i) : t[j] = x <=> t[j].name = x.name
      <3>1. ASSUME NEW j \in MemberNames(t, i) PROVE t[j] = x <=> t[j].name = x.name
        <4>1. t[j] \in Token /\ t[j].type \notin {"longName", "longString"} /\ IsName(t[j])
          BY <2>4 DEF WithinLimits
        <4>2. t[j] \in [type : {"name"}, name : Names] /\ x \in [type : {"name"}, name : Names]
          BY <4>1, Zenon DEF Token, IsName
        <4>3. QED
          BY <4>2
      <3>2. QED
        BY <3>1, Zenon
    <2>6. u[i].type = "object"
      BY <1>1, <2>1
    <2>7. \A j, k \in MemberNames(t, i) : t[j] = t[k] => j = k
      BY <1>3, <1>1, <2>6, Zenon DEF DistinctAt
    <2>8. u[n + 1] = x
      BY <1>1, Zenon
    <2> HIDE DEF u, f, n
    <2>9. (\A j, k \in MemberNames(u, i) : u[j] = u[k] => j = k) <=>
             \A j \in MemberNames(t, i) : t[j] # x
      BY <2>3, <2>4, <2>7, <2>8, ZenonT(60)
    <2>10. x.name \notin f.seen <=> \A j \in MemberNames(t, i) : t[j].name # x.name
      BY <2>2, Zenon
    <2>11. QED
      BY <2>5, <2>6, <2>9, <2>10, Zenon DEF DistinctAt
  <1>6. PICK i \in 1..n : Opening(t[i]) /\ Innermost(t, i)
    <2>1. Len(s) \in 1..Len(s)
      OBVIOUS
    <2>2. PICK i \in 1..n : Opening(t[i]) /\ StillOpen(t, i) /\ Nesting(t, i) = Len(s) - 1
      BY <2>1, Zenon DEF Tracks
    <2>3. Nesting(t, i) + 1 = Len(s)
      BY <2>1, <2>2
    <2>4. QED
      BY <2>2, <2>3, InnermostIsTop, Zenon
  <1>7. CASE x.name \notin f.seen
    BY <1>4, <1>5, <1>7, NamesAppended, Zenon
  <1>8. CASE x.name \in f.seen
    <2>1. ~DistinctAt(u, i)
      BY <1>5, <1>6, <1>8, Zenon
    <2>2. i \in 1..Len(u)
      BY <1>1
    <2>3. QED
      BY <1>8, <2>1, <2>2, DistinctEverywhere, Zenon
  <1>9. QED
    BY <1>7, <1>8, Zenon

-----------------------------------------------------------------------------
(* The stack follows the text. *)

(* The delimiter that closes the innermost container. *)
LEMMA TracksClosed ==
    ASSUME NEW t \in Seq(Token), NEW s \in Seq(FrameRecord), Tracks(s, t), NEW x \in Token,
           Closing(x), NEW r \in Seq(FrameRecord), Len(r) + 1 = Len(s),
           \A k \in 1..Len(r) : /\ r[k].kind = s[k].kind /\ r[k].count = s[k].count
                                /\ r[k].seen = s[k].seen
    PROVE  Tracks(r, Append(t, x))
  <1> DEFINE u == Append(t, x)
             n == Len(t)
             m == Len(r)
  <1>1. n \in Nat /\ m \in Nat /\ Len(u) = n + 1 /\ u[n + 1] = x /\ \A j \in 1..n : u[j] = t[j]
    BY AppendedText
  <1>2. ~Opening(x)
    BY DEF Opening, Closing
  <1>3. \A i \in 1..n : i \in 1..(n + 1)
    BY <1>1
  <1>4. \A i \in 1..n : Nesting(u, i) = Nesting(t, i) /\ Nesting(t, i) \in Int
    BY <1>3, NestingBefore, NestingInt, Zenon
  <1>5. Nesting(t, n + 1) = m + 1 /\ Nesting(u, n + 2) = m
    <2>1. Nesting(t, n + 1) = m + 1
      BY Zenon DEF Tracks
    <2>2. QED
      BY <1>1, <1>2, <2>1, NestingAfter, SMTT(60)
  <1>6. \A i \in 1..n : StillOpen(u, i) <=> StillOpen(t, i) /\ m + 1 > Nesting(t, i) + 1
    BY <1>5, StillOpenAppended
  <1>7. \A i \in 1..n : Inside(u, i) = Inside(t, i) /\ MemberNames(u, i) = MemberNames(t, i)
    BY InsideStays, Zenon
  <1>8. \A i \in 1..n : \A j \in MemberNames(t, i) : u[j] = t[j]
    <2>1. \A i \in 1..n : i \in Nat
      OBVIOUS
    <2>2. QED
      BY <1>1, <2>1, InsideFinite, Zenon
  <1> HIDE DEF u
  <1>9. Nesting(u, Len(u) + 1) = Len(r)
    BY <1>1, <1>5
  <1>10. ASSUME NEW k \in 1..m
         PROVE  \E i \in 1..Len(u) : Opening(u[i]) /\ StillOpen(u, i) /\ Nesting(u, i) = k - 1
    <2>1. k \in 1..Len(s)
      BY <1>1
    <2>2. PICK i \in 1..n : Opening(t[i]) /\ StillOpen(t, i) /\ Nesting(t, i) = k - 1
      BY <2>1, Zenon DEF Tracks
    <2>3. m + 1 > Nesting(t, i) + 1
      BY <1>1, <2>2
    <2>4. Opening(u[i]) /\ StillOpen(u, i) /\ Nesting(u, i) = k - 1
      BY <1>1, <1>4, <1>6, <2>2, <2>3, Zenon
    <2>5. QED
      BY <1>1, <1>3, <2>4, Zenon
  <1>11. ASSUME NEW i \in 1..Len(u), Opening(u[i]), StillOpen(u, i)
         PROVE  /\ Nesting(u, i) + 1 \in 1..m
                /\ r[Nesting(u, i) + 1].kind = u[i].type
                /\ Counts(r[Nesting(u, i) + 1], u, i)
                /\ Saw(r[Nesting(u, i) + 1], u, i)
    <2>1. i \in 1..n
      BY <1>1, <1>2, <1>11, SMTT(60)
    <2>2. Opening(t[i]) /\ StillOpen(t, i) /\ m + 1 > Nesting(t, i) + 1
      BY <1>1, <1>6, <1>11, <2>1, Zenon
    <2>3. PICK k : k = Nesting(t, i) + 1
      OBVIOUS
    <2>4. k \in 1..Len(s) /\ s[k].kind = t[i].type /\ Counts(s[k], t, i) /\ Saw(s[k], t, i)
      BY <2>1, <2>2, <2>3, Zenon DEF Tracks
    <2>5. k \in 1..m /\ Nesting(u, i) + 1 = k /\ u[i] = t[i]
      BY <1>1, <1>4, <2>1, <2>2, <2>3, <2>4
    <2>6. r[k].kind = s[k].kind /\ r[k].count = s[k].count /\ r[k].seen = s[k].seen
      BY <2>5, Zenon
    <2>7. Inside(u, i) = Inside(t, i) /\ MemberNames(u, i) = MemberNames(t, i)
      BY <1>7, <2>1
    <2>8. Counts(r[k], u, i)
      BY <2>4, <2>6, <2>7, Zenon DEF Counts
    <2>9. Saw(r[k], u, i)
      <3>1. {u[j].name : j \in MemberNames(t, i)} = {t[j].name : j \in MemberNames(t, i)}
        BY <1>8, <2>1, ZenonT(60)
      <3>2. QED
        BY <2>4, <2>6, <2>7, <3>1, Zenon DEF Saw
    <2>10. QED
      BY <2>4, <2>5, <2>6, <2>8, <2>9, Zenon
  <1>12. QED
    BY <1>9, <1>10, <1>11, Zenon DEF u, Tracks

(* What a frame becomes with a token directly in its container. *)
Grown(f, g, x) ==
    /\ g.kind = f.kind /\ g.count = CountWith(f, x)
    /\ g.seen = IF x.type = "name" THEN f.seen \cup {x.name} ELSE f.seen

(* The frames r are the frames s, the innermost one with the token x. *)
TopGrown(s, r, x) ==
    /\ Len(s) > 0 => Grown(s[Len(s)], r[Len(s)], x)
    /\ \A k \in 1..Len(s) : k # Len(s) => r[k] = s[k]

(* The containers that are open before a token that closes nothing. *)
LEMMA OldContainers ==
    ASSUME NEW t \in Seq(Token), NEW s \in Seq(FrameRecord), Tracks(s, t), NEW x \in Token,
           ~Closing(x), x.type # "longName", NEW r, TopGrown(s, r, x),
           NEW i \in 1..Len(t), Opening(t[i])
    PROVE  /\ StillOpen(Append(t, x), i) <=> StillOpen(t, i)
           /\ Nesting(Append(t, x), i) = Nesting(t, i) /\ Nesting(t, i) \in Int
           /\ Append(t, x)[i] = t[i]
           /\ StillOpen(t, i) =>
                /\ Nesting(t, i) + 1 \in 1..Len(s)
                /\ r[Nesting(t, i) + 1].kind = t[i].type
                /\ Counts(r[Nesting(t, i) + 1], Append(t, x), i)
                /\ Saw(r[Nesting(t, i) + 1], Append(t, x), i)
  <1> DEFINE u == Append(t, x)
             n == Len(t)
  <1>1. n \in Nat /\ u[n + 1] = x /\ \A j \in 1..n : u[j] = t[j]
    BY AppendedText, Zenon
  <1>2. i \in 1..(n + 1) /\ i \in Nat
    BY <1>1, SMTT(60)
  <1>3. Nesting(u, i) = Nesting(t, i) /\ Nesting(t, i) \in Int /\ u[i] = t[i]
    BY <1>1, <1>2, NestingBefore, NestingInt, Zenon
  <1>4. StillOpen(u, i) <=> StillOpen(t, i)
    BY StillOpenAppended, Zenon
  <1>5. \A j \in MemberNames(t, i) : j \in 1..n /\ j # n + 1 /\ u[j] = t[j]
    <2>1. MemberNames(t, i) \subseteq 1..n
      BY <1>2, InsideFinite, Zenon
    <2>2. QED
      BY <1>1, <2>1, SMTT(60)
  <1>6. ASSUME StillOpen(t, i)
        PROVE  /\ Nesting(t, i) + 1 \in 1..Len(s)
               /\ r[Nesting(t, i) + 1].kind = t[i].type
               /\ Counts(r[Nesting(t, i) + 1], u, i)
               /\ Saw(r[Nesting(t, i) + 1], u, i)
    <2>1. PICK k : k = Nesting(t, i) + 1
      OBVIOUS
    <2>2. k \in 1..Len(s) /\ s[k].kind = t[i].type /\ Counts(s[k], t, i) /\ Saw(s[k], t, i)
      BY <1>6, <2>1, Zenon DEF Tracks
    <2>3. Innermost(t, i) <=> k = Len(s)
      BY <1>6, <2>1, InnermostIsTop, Zenon
    <2> HIDE DEF u
    <2>4. CASE k # Len(s)
      <3>1. r[k] = s[k]
        BY <2>2, <2>4, Zenon DEF TopGrown
      <3>2. Inside(u, i) = Inside(t, i) /\ MemberNames(u, i) = MemberNames(t, i)
        BY <2>3, <2>4, InsideStays, Zenon DEF u
      <3>3. {u[j].name : j \in MemberNames(t, i)} = {t[j].name : j \in MemberNames(t, i)}
        BY <1>5, ZenonT(60)
      <3>4. Counts(r[k], u, i) /\ Saw(r[k], u, i)
        BY <2>2, <3>1, <3>2, <3>3, Zenon DEF Counts, Saw
      <3>5. QED
        BY <2>1, <2>2, <3>1, <3>4, Zenon
    <2>5. CASE k = Len(s)
      <3>1. Grown(s[k], r[k], x)
        <4>1. Len(s) > 0
          BY <2>2, <2>5
        <4>2. QED
          BY <2>5, <4>1, Zenon DEF TopGrown
      <3>2. CountWith(s[k], x) =
              Cardinality(IF s[k].kind = "object" THEN MemberNames(u, i) ELSE Inside(u, i))
        BY <2>3, <2>5, TopCounts, Zenon DEF u
      <3>3. Counts(r[k], u, i)
        BY <3>1, <3>2, Zenon DEF Counts, Grown
      <3>4. Saw(r[k], u, i)
        <4>1. SUFFICES ASSUME r[k].kind = "object"
                       PROVE  r[k].seen = {u[j].name : j \in MemberNames(u, i)}
          BY Zenon DEF Saw
        <4>2. s[k].seen = {t[j].name : j \in MemberNames(t, i)}
          BY <2>2, <3>1, <4>1, Zenon DEF Saw, Grown
        <4>3. s[k].seen = {u[j].name : j \in MemberNames(t, i)}
          BY <1>5, <4>2, ZenonT(60)
        <4>4. MemberNames(u, i) = IF IsName(x) THEN MemberNames(t, i) \cup {n + 1}
                                  ELSE MemberNames(t, i)
          BY <2>3, <2>5, InsideGrows, Zenon DEF u
        <4>5. CASE x.type = "name"
          <5>1. MemberNames(u, i) = MemberNames(t, i) \cup {n + 1}
            BY <4>4, <4>5, Zenon DEF IsName
          <5>2. r[k].seen = s[k].seen \cup {x.name}
            BY <3>1, <4>5 DEF Grown
          <5>3. {u[j].name : j \in MemberNames(t, i) \cup {n + 1}} =
                   {u[j].name : j \in MemberNames(t, i)} \cup {u[n + 1].name}
            BY Zenon
          <5>4. QED
            BY <1>1, <4>3, <5>1, <5>2, <5>3, Zenon DEF u
        <4>6. CASE x.type # "name"
          <5>1. MemberNames(u, i) = MemberNames(t, i)
            BY <4>4, <4>6, Zenon DEF IsName
          <5>2. r[k].seen = s[k].seen
            BY <3>1, <4>6 DEF Grown
          <5>3. QED
            BY <4>3, <5>1, <5>2, Zenon
        <4>7. QED
          BY <4>5, <4>6, Zenon
      <3>5. QED
        BY <2>1, <2>2, <3>1, <3>3, <3>4, ZenonT(60) DEF Grown
    <2>6. QED
      BY <2>4, <2>5, Zenon
  <1>7. QED
    BY <1>3, <1>4, <1>6, Zenon DEF u

(* A name or a scalar. *)
LEMMA TracksRead ==
    ASSUME NEW t \in Seq(Token), NEW s \in Seq(FrameRecord), Tracks(s, t), NEW x \in Token,
           ~Closing(x), ~Opening(x), x.type # "longName",
           NEW r \in Seq(FrameRecord), Len(r) = Len(s),
           TopGrown(s, r, x)
    PROVE  Tracks(r, Append(t, x))
  <1> DEFINE u == Append(t, x)
             n == Len(t)
  <1>1. n \in Nat /\ Len(u) = n + 1 /\ u[n + 1] = x
    BY AppendedText, Zenon
  <1>2. ASSUME NEW i \in 1..n, Opening(t[i])
        PROVE  /\ StillOpen(u, i) <=> StillOpen(t, i)
               /\ Nesting(u, i) = Nesting(t, i) /\ u[i] = t[i]
               /\ StillOpen(t, i) => /\ Nesting(t, i) + 1 \in 1..Len(s)
                                     /\ r[Nesting(t, i) + 1].kind = t[i].type
                                     /\ Counts(r[Nesting(t, i) + 1], u, i)
                                     /\ Saw(r[Nesting(t, i) + 1], u, i)
    BY <1>2, OldContainers, Zenon
  <1>3. Nesting(u, n + 2) = Nesting(t, n + 1)
    BY NestingAfter, Zenon
  <1>4. \A j \in 1..n : u[j] = t[j]
    BY AppendedText, Zenon
  <1> HIDE DEF u
  <1>5. Nesting(u, Len(u) + 1) = Len(r)
    BY <1>1, <1>3, SMTT(60) DEF Tracks
  <1>6. ASSUME NEW k \in 1..Len(r)
        PROVE  \E i \in 1..Len(u) : Opening(u[i]) /\ StillOpen(u, i) /\ Nesting(u, i) = k - 1
    <2>1. PICK i \in 1..n : Opening(t[i]) /\ StillOpen(t, i) /\ Nesting(t, i) = k - 1
      BY Zenon DEF Tracks
    <2>2. Opening(u[i]) /\ StillOpen(u, i) /\ Nesting(u, i) = k - 1
      BY <1>2, <2>1, Zenon
    <2>3. i \in 1..Len(u)
      BY <1>1
    <2>4. QED
      BY <2>2, <2>3, Zenon
  <1>7. ASSUME NEW i \in 1..Len(u), Opening(u[i]), StillOpen(u, i)
        PROVE  /\ Nesting(u, i) + 1 \in 1..Len(r)
               /\ r[Nesting(u, i) + 1].kind = u[i].type
               /\ Counts(r[Nesting(u, i) + 1], u, i)
               /\ Saw(r[Nesting(u, i) + 1], u, i)
    <2>1. i \in 1..n
      BY <1>1, <1>7, SMTT(60)
    <2>2. Opening(t[i])
      BY <1>4, <1>7, <2>1, Zenon
    <2>3. QED
      BY <1>2, <1>7, <2>1, <2>2, Zenon
  <1>8. QED
    BY <1>5, <1>6, <1>7, Zenon DEF u, Tracks

(* A delimiter that opens a container. *)
LEMMA TracksOpened ==
    ASSUME NEW t \in Seq(Token), NEW s \in Seq(FrameRecord), Tracks(s, t), NEW x \in Token,
           Opening(x), NEW r \in Seq(FrameRecord), Len(r) = Len(s) + 1,
           TopGrown(s, r, x), r[Len(s) + 1] = Frame(x)
    PROVE  Tracks(r, Append(t, x))
  <1> DEFINE u == Append(t, x)
             n == Len(t)
             m == Len(s)
  <1>1. n \in Nat /\ m \in Nat /\ Len(u) = n + 1 /\ u[n + 1] = x /\ \A j \in 1..n : u[j] = t[j]
    BY AppendedText
  <1>2. ~Closing(x) /\ x.type # "longName" /\ x.type \in {"object", "array"}
    BY Zenon DEF Opening, Closing
  <1>3. ASSUME NEW i \in 1..n, Opening(t[i])
        PROVE  /\ StillOpen(u, i) <=> StillOpen(t, i)
               /\ Nesting(u, i) = Nesting(t, i) /\ u[i] = t[i]
               /\ StillOpen(t, i) => /\ Nesting(t, i) + 1 \in 1..m
                                     /\ r[Nesting(t, i) + 1].kind = t[i].type
                                     /\ Counts(r[Nesting(t, i) + 1], u, i)
                                     /\ Saw(r[Nesting(t, i) + 1], u, i)
    BY <1>2, <1>3, OldContainers, Zenon
  <1>4. Nesting(t, n + 1) = m /\ Nesting(u, n + 1) = m /\ Nesting(u, n + 2) = m + 1
    <2>1. Nesting(t, n + 1) = m
      BY Zenon DEF Tracks
    <2>2. n + 1 \in 1..(n + 1)
      BY <1>1, SMTT(60)
    <2>3. QED
      BY <2>1, <2>2, NestingAfter, NestingBefore, Zenon
  <1>5. Inside(u, n + 1) = {} /\ MemberNames(u, n + 1) = {}
    BY InsideNew
  <1> HIDE DEF u
  <1>6. StillOpen(u, n + 1)
    <2>1. ASSUME NEW k \in (n + 1 + 1)..(Len(u) + 1) PROVE k = n + 2
      BY <1>1
    <2>2. m + 1 > m
      BY <1>1
    <2>3. QED
      BY <1>4, <2>1, <2>2, Zenon DEF StillOpen
  <1>7. Nesting(u, Len(u) + 1) = Len(r)
    BY <1>1, <1>4, SMTT(60)
  <1>8. ASSUME NEW k \in 1..Len(r)
        PROVE  \E i \in 1..Len(u) : Opening(u[i]) /\ StillOpen(u, i) /\ Nesting(u, i) = k - 1
    <2>1. CASE k \in 1..m
      <3>1. PICK i \in 1..n : Opening(t[i]) /\ StillOpen(t, i) /\ Nesting(t, i) = k - 1
        BY <2>1, Zenon DEF Tracks
      <3>2. Opening(u[i]) /\ StillOpen(u, i) /\ Nesting(u, i) = k - 1
        BY <1>3, <3>1, Zenon
      <3>3. i \in 1..Len(u)
        BY <1>1
      <3>4. QED
        BY <3>2, <3>3
    <2>2. CASE k = m + 1
      <3>1. n + 1 \in 1..(n + 1) /\ m = (m + 1) - 1
        BY <1>1
      <3>2. QED
        BY <1>1, <1>4, <1>6, <2>2, <3>1, ZenonT(60)
    <2>3. QED
      BY <1>1, <2>1, <2>2, SMTT(60)
  <1>9. ASSUME NEW i \in 1..Len(u), Opening(u[i]), StillOpen(u, i)
        PROVE  /\ Nesting(u, i) + 1 \in 1..Len(r)
               /\ r[Nesting(u, i) + 1].kind = u[i].type
               /\ Counts(r[Nesting(u, i) + 1], u, i)
               /\ Saw(r[Nesting(u, i) + 1], u, i)
    <2>1. CASE i \in 1..n
      <3>1. Opening(t[i])
        BY <1>1, <1>9, <2>1, Zenon
      <3>2. 1..m \subseteq 1..Len(r)
        BY <1>1
      <3>3. QED
        BY <1>3, <1>9, <2>1, <3>1, <3>2, ZenonT(60)
    <2>2. CASE i = n + 1
      <3>1. /\ r[m + 1].kind = x.type /\ r[m + 1].count = 0 /\ r[m + 1].seen = {}
        BY DEF Frame
      <3>2. Counts(r[m + 1], u, n + 1)
        BY <1>5, <3>1, FS_EmptySet, Zenon DEF Counts
      <3>3. {u[j].name : j \in MemberNames(u, n + 1)} = {}
        BY <1>5, Zenon
      <3>4. Saw(r[m + 1], u, n + 1)
        BY <3>1, <3>3, Zenon DEF Saw
      <3>5. m + 1 \in 1..Len(r)
        BY <1>1
      <3>6. QED
        BY <1>1, <1>4, <2>2, <3>1, <3>2, <3>4, <3>5, ZenonT(60)
    <2>3. QED
      BY <1>1, <2>1, <2>2
  <1>10. QED
    BY <1>7, <1>8, <1>9, Zenon DEF u, Tracks

(* The empty stack is that of the empty text. *)
LEMMA TracksNothing == Tracks(<<>>, <<>>)
  <1>1. Nesting(<<>>, 1) = 0
    <2>1. 1..(1 - 1) = {}
      OBVIOUS
    <2>2. /\ {j \in 1..(1 - 1) : Opening(<<>>[j])} = {}
          /\ {j \in 1..(1 - 1) : Closing(<<>>[j])} = {}
      BY <2>1, Zenon
    <2>3. Nesting(<<>>, 1) = 0 - 0
      BY <2>2, FS_EmptySet, Zenon DEF Nesting
    <2>4. QED
      BY <2>3
  <1>2. Len(<<>>) = 0 /\ 1..Len(<<>>) = {} /\ Len(<<>>) + 1 = 1
    BY SMTT(60)
  <1>3. QED
    BY <1>1, <1>2, Zenon DEF Tracks

-----------------------------------------------------------------------------
(* validateJSON. *)

(* A frame is determined by its fields. *)
LEMMA FramesAt ==
    ASSUME NEW s \in Seq(FrameRecord), NEW k \in 1..Len(s)
    PROVE  /\ s[k] \in FrameRecord /\ s[k].kind \in {"object", "array"} /\ s[k].count \in Nat
           /\ s[k].seen \in SUBSET Names /\ s[k].due \in {"next", "value"}
           /\ s[k] = [kind |-> s[k].kind, count |-> s[k].count, seen |-> s[k].seen,
                      due |-> s[k].due]
  <1>1. s[k] \in FrameRecord
    OBVIOUS
  <1>2. QED
    BY <1>1 DEF FrameRecord

(* The last frame replaced. *)
LEMMA TopReplaced ==
    ASSUME NEW s \in Seq(FrameRecord), Len(s) > 0, NEW f \in FrameRecord,
           NEW r, r = [s EXCEPT ![Len(s)] = f]
    PROVE  /\ r \in Seq(FrameRecord) /\ Len(r) = Len(s) /\ r[Len(s)] = f
           /\ \A k \in 1..Len(s) : k # Len(s) => r[k] = s[k]
  OBVIOUS

(* The stack with one frame more. *)
LEMMA AppendedStack ==
    ASSUME NEW c \in Seq(FrameRecord), NEW g \in FrameRecord
    PROVE  /\ Append(c, g) \in Seq(FrameRecord) /\ Len(Append(c, g)) = Len(c) + 1
           /\ Append(c, g)[Len(c) + 1] = g
           /\ \A k \in 1..Len(c) : Append(c, g)[k] = c[k]
  OBVIOUS

(* What Settled changes: the innermost frame expects the next member or     *)
(* element.                                                                 *)
LEMMA SettledStack ==
    ASSUME NEW s \in Seq(FrameRecord)
    PROVE  /\ Settled(s) \in Seq(FrameRecord) /\ Len(Settled(s)) = Len(s)
           /\ \A k \in 1..Len(s) : /\ Settled(s)[k].kind = s[k].kind
                                   /\ Settled(s)[k].count = s[k].count
                                   /\ Settled(s)[k].seen = s[k].seen
                                   /\ k # Len(s) => Settled(s)[k] = s[k]
  <1>1. CASE s = <<>>
    BY <1>1, Zenon DEF Settled
  <1>2. CASE s # <<>>
    <2>1. Len(s) \in 1..Len(s) /\ Len(s) > 0
      BY <1>2
    <2> PICK g \in FrameRecord : g = s[Len(s)]
      BY <2>1
    <2> DEFINE f == [g EXCEPT !.due = "next"]
    <2>2. f \in FrameRecord /\ f.kind = g.kind /\ f.count = g.count /\ f.seen = g.seen
      BY DEF FrameRecord
    <2>3. Settled(s) = [s EXCEPT ![Len(s)] = f]
      BY <1>2, Zenon DEF Settled
    <2> HIDE DEF f
    <2>4. /\ Settled(s) \in Seq(FrameRecord) /\ Len(Settled(s)) = Len(s)
          /\ Settled(s)[Len(s)] = f
          /\ \A k \in 1..Len(s) : k # Len(s) => Settled(s)[k] = s[k]
      BY <2>1, <2>2, <2>3, TopReplaced
    <2>5. QED
      BY <2>2, <2>4, Zenon
  <1>3. QED
    BY <1>1, <1>2

(* What Counted changes: the innermost frame has one member or element      *)
(* more.                                                                    *)
LEMMA CountedStack ==
    ASSUME frames \in Seq(FrameRecord), NEW x \in Token, NEW c, c = Counted(x)
    PROVE  /\ c \in Seq(FrameRecord) /\ Len(c) = Len(frames)
           /\ \A k \in 1..Len(frames) : k # Len(frames) => c[k] = frames[k]
           /\ Len(frames) > 0 => /\ c[Len(frames)].kind = frames[Len(frames)].kind
                                 /\ c[Len(frames)].count = CountWith(frames[Len(frames)], x)
                                 /\ c[Len(frames)].seen = frames[Len(frames)].seen
  <1>1. CASE frames = <<>>
    BY <1>1, SMTT(60) DEF Counted
  <1>2. CASE frames # <<>>
    <2>1. Len(frames) \in 1..Len(frames) /\ Len(frames) > 0
      BY <1>2
    <2>2. PICK g \in FrameRecord : g = frames[Len(frames)]
      BY <2>1
    <2>3. Top(frames) = g
      BY <2>2, Zenon DEF Top
    <2>4. CASE IsName(x) \/ g.kind = "array"
      <3> DEFINE f == [g EXCEPT !.count = g.count + 1]
      <3>1. f \in FrameRecord /\ f.kind = g.kind /\ f.count = g.count + 1 /\ f.seen = g.seen
        BY <2>2 DEF FrameRecord
      <3>2. Counted(x) = [frames EXCEPT ![Len(frames)] = f]
        BY <1>2, <2>2, <2>3, <2>4, Zenon DEF Counted
      <3>3. CountWith(g, x) = g.count + 1
        BY <2>4, Zenon DEF CountWith
      <3> HIDE DEF f
      <3>4. /\ c \in Seq(FrameRecord) /\ Len(c) = Len(frames) /\ c[Len(frames)] = f
            /\ \A k \in 1..Len(frames) : k # Len(frames) => c[k] = frames[k]
        BY <2>1, <3>1, <3>2, TopReplaced
      <3>5. QED
        BY <2>2, <3>1, <3>3, <3>4, Zenon
    <2>5. CASE ~(IsName(x) \/ g.kind = "array")
      <3>1. c = frames
        BY <1>2, <2>3, <2>5, Zenon DEF Counted
      <3>2. CountWith(g, x) = g.count
        BY <2>5 DEF CountWith
      <3>3. QED
        BY <2>2, <3>1, <3>2
    <2>6. QED
      BY <2>4, <2>5
  <1>3. QED
    BY <1>1, <1>2

(* The check of the limits, as the code makes it. *)
LEMMA TooManyExceeds ==
    ASSUME frames \in Seq(FrameRecord), NEW x \in Token, NEW c, c = Counted(x)
    PROVE  TooMany(x, c) <=> Exceeds(frames, x)
  <1>1. c \in Seq(FrameRecord) /\ Len(c) = Len(frames)
    BY CountedStack
  <1>2. c = <<>> <=> frames = <<>>
    BY <1>1
  <1>3. frames # <<>> => /\ Top(c).count = CountWith(frames[Len(frames)], x)
                         /\ Top(c).kind = frames[Len(frames)].kind
    <2>1. frames # <<>> => Len(frames) > 0
      OBVIOUS
    <2>2. Top(c) = c[Len(frames)]
      BY <1>1, Zenon DEF Top
    <2>3. QED
      BY <2>1, <2>2, CountedStack, ZenonT(60)
  <1>4. QED
    BY <1>1, <1>2, <1>3, Zenon DEF TooMany, Exceeds

(* Only an object has names, and only an open container is closed. *)
LEMMA AcceptableToken ==
    ASSUME frames \in Seq(FrameRecord), NEW x \in Token, Acceptable(x)
    PROVE  /\ Closing(x) => Len(frames) > 0
           /\ IsName(x) => Len(frames) > 0 /\ frames[Len(frames)].kind = "object"
  <1>1. CASE frames = <<>>
    BY <1>1, Zenon DEF Acceptable
  <1>2. CASE frames # <<>>
    <2>1. Len(frames) \in 1..Len(frames) /\ Len(frames) > 0
      BY <1>2
    <2>2. PICK g : g = frames[Len(frames)]
      OBVIOUS
    <2>3. g.kind \in {"object", "array"} /\ g.due \in {"next", "value"}
      BY <2>1, <2>2, FramesAt, Zenon
    <2>4. (CASE g.due = "value" -> ~Closing(x) /\ ~IsName(x)
                 [] g.kind = "object" /\ g.due = "next" -> IsName(x) \/ x.type = "endObject"
                 [] g.kind = "array" -> ~IsName(x) /\ x.type # "endObject")
      BY <1>2, <2>2, Zenon DEF Acceptable, Top
    <2>5. IsName(x) => g.kind = "object"
      BY <2>3, <2>4, Zenon
    <2>6. QED
      BY <2>1, <2>2, <2>5, Zenon
  <1>3. QED
    BY <1>1, <1>2, Zenon

(* The stack without its top, as the closing token leaves it. *)
LEMMA FrontOfStack ==
    ASSUME NEW s \in Seq(FrameRecord), Len(s) > 0, NEW r, r = Below(s)
    PROVE  /\ r \in Seq(FrameRecord) /\ Len(r) + 1 = Len(s)
           /\ \A k \in 1..Len(r) : r[k] = s[k]
  <1>1. r = SubSeq(s, 1, Len(s) - 1)
    BY DEF Below
  <1> DEFINE m == Len(s) - 1
  <1>2. m \in Nat /\ \A i \in 1..m : s[i] \in FrameRecord
    OBVIOUS
  <1> HIDE DEF m
  <1>3. /\ SubSeq(s, 1, m) \in Seq(FrameRecord) /\ Len(SubSeq(s, 1, m)) = m
        /\ \A i \in 1..m : SubSeq(s, 1, m)[i] = s[i]
    BY <1>2, SMTT(60)
  <1>4. QED
    BY <1>1, <1>3 DEF m

(* The outcomes of a token that closes nothing, c being the stack with it   *)
(* counted in.                                                              *)
LEMMA TokenOutcomes ==
    ASSUME NEW x, NEW c, c = Counted(x), ReadToken(x), ~Closing(x)
    PROVE  /\ TooMany(x, c) => stage' = "limit_exceeded" /\ frames' = <<>>
           /\ ~TooMany(x, c) /\ IsName(x) /\ x.name \in c[Len(c)].seen =>
                stage' = "malformed_json" /\ frames' = <<>>
           /\ ~TooMany(x, c) /\ IsName(x) /\ x.name \notin c[Len(c)].seen =>
                /\ frames' = [c EXCEPT ![Len(c)] = Named(c[Len(c)], x.name)]
                /\ stage' = stage
           /\ ~TooMany(x, c) /\ ~IsName(x) /\ Opening(x) =>
                frames' = Append(c, Frame(x)) /\ stage' = stage
           /\ ~TooMany(x, c) /\ ~IsName(x) /\ ~Opening(x) =>
                frames' = Settled(c) /\ stage' = stage
  <1>1. CASE TooMany(x, c)
    BY <1>1 DEF ReadToken
  <1>2. CASE ~TooMany(x, c) /\ IsName(x)
    <2>1. ~Opening(x)
      BY <1>2 DEF IsName, Opening
    <2>2. QED
      BY <1>2, <2>1, Zenon DEF ReadToken
  <1>3. CASE ~TooMany(x, c) /\ ~IsName(x) /\ Opening(x)
    BY <1>3 DEF ReadToken
  <1>4. CASE ~TooMany(x, c) /\ ~IsName(x) /\ ~Opening(x)
    BY <1>4, Zenon DEF ReadToken
  <1>5. QED
    BY <1>1, <1>2, <1>3, <1>4, ZenonT(60)

(* One token: validateJSON goes on exactly as long as the text has no       *)
(* excess and no duplicate, and the stack follows.                          *)
Verdicts ==
    \/ /\ stage' = "validating" /\ Tracks(frames', tokens')
       /\ WithinLimits(tokens') /\ NamesDistinct(tokens')
    \/ stage' = "limit_exceeded" /\ frames' = <<>> /\ ~WithinLimits(tokens')
    \/ /\ stage' = "malformed_json" /\ frames' = <<>>
       /\ WithinLimits(tokens') /\ ~NamesDistinct(tokens')

(* One token of validateJSONValue: the stack still follows the text, and a  *)
(* limit or a duplicate name is reported exactly when the text with the     *)
(* token has it.                                                            *)
LEMMA ReadTokenDecides ==
    ASSUME frames \in Seq(FrameRecord), tokens \in Seq(Token), Tracks(frames, tokens),
           WithinLimits(tokens), NamesDistinct(tokens), stage = "validating",
           NEW x \in Token, ReadToken(x)
    PROVE  tokens' \in Seq(Token) /\ frames' \in Seq(FrameRecord) /\ Verdicts
  <1>1. tokens' = Append(tokens, x) /\ tokens' \in Seq(Token) /\ Acceptable(x)
    BY AppendedText, Zenon DEF ReadToken
  <1>2. CASE Closing(x)
    <2>1. frames' = Settled(Below(frames)) /\ stage' = "validating"
      BY <1>2, Zenon DEF ReadToken
    <2>2. Len(frames) > 0 /\ ~IsName(x)
      BY <1>1, <1>2, AcceptableToken, ZenonT(60) DEF Closing, IsName
    <2>3. PICK r : r = Below(frames)
      BY Zenon
    <2>4. /\ r \in Seq(FrameRecord) /\ Len(r) + 1 = Len(frames)
          /\ \A k \in 1..Len(r) : r[k] = frames[k]
      BY <2>2, <2>3, FrontOfStack, Zenon
    <2>5. /\ frames' \in Seq(FrameRecord) /\ Len(frames') + 1 = Len(frames)
          /\ \A k \in 1..Len(frames') : /\ frames'[k].kind = frames[k].kind
                                        /\ frames'[k].count = frames[k].count
                                        /\ frames'[k].seen = frames[k].seen
      BY <2>1, <2>3, <2>4, SettledStack, SMTT(60)
    <2>6. Tracks(frames', tokens')
      BY <1>1, <1>2, <2>5, TracksClosed, Zenon
    <2>7. WithinLimits(tokens') /\ NamesDistinct(tokens')
      BY <1>1, <1>2, <2>2, LimitsClosed, NamesKept, Zenon
    <2>8. QED
      BY <1>1, <2>1, <2>5, <2>6, <2>7, ZenonT(60) DEF Verdicts
  <1>3. CASE ~Closing(x)
    <2>1. PICK c : c = Counted(x)
      BY Zenon
    <2>2. /\ c \in Seq(FrameRecord) /\ Len(c) = Len(frames)
          /\ \A k \in 1..Len(frames) : k # Len(frames) => c[k] = frames[k]
          /\ Len(frames) > 0 => /\ c[Len(frames)].kind = frames[Len(frames)].kind
                                /\ c[Len(frames)].count = CountWith(frames[Len(frames)], x)
                                /\ c[Len(frames)].seen = frames[Len(frames)].seen
      BY <2>1, CountedStack, Zenon
    <2>3. WithinLimits(tokens') <=> ~TooMany(x, c)
      BY <1>1, <1>3, <2>1, LimitsAppended, TooManyExceeds, Zenon
    <2>4. /\ TooMany(x, c) => stage' = "limit_exceeded" /\ frames' = <<>>
          /\ ~TooMany(x, c) /\ IsName(x) /\ x.name \in c[Len(c)].seen =>
               stage' = "malformed_json" /\ frames' = <<>>
          /\ ~TooMany(x, c) /\ IsName(x) /\ x.name \notin c[Len(c)].seen =>
               /\ frames' = [c EXCEPT ![Len(c)] = Named(c[Len(c)], x.name)]
               /\ stage' = stage
          /\ ~TooMany(x, c) /\ ~IsName(x) /\ Opening(x) =>
               frames' = Append(c, Frame(x)) /\ stage' = stage
          /\ ~TooMany(x, c) /\ ~IsName(x) /\ ~Opening(x) =>
               frames' = Settled(c) /\ stage' = stage
      BY <1>3, <2>1, TokenOutcomes, Zenon
    <2>5. CASE TooMany(x, c)
      <3>1. stage' = "limit_exceeded" /\ frames' = <<>>
        BY <2>4, <2>5, Zenon
      <3>2. QED
        BY <1>1, <2>3, <2>5, <3>1, SMTT(60) DEF Verdicts
    <2>6. ASSUME ~TooMany(x, c), IsName(x)
          PROVE  tokens' \in Seq(Token) /\ frames' \in Seq(FrameRecord) /\ Verdicts
      <3>1. x.type = "name" /\ x.name \in Names /\ ~Opening(x)
        BY <2>6, Zenon DEF TooMany, IsName, Token, Opening
      <3>2. Len(frames) > 0 /\ frames[Len(frames)].kind = "object"
        BY <1>1, <2>6, AcceptableToken, Zenon
      <3>3. PICK g \in FrameRecord : g = c[Len(c)]
        BY <2>2, <3>2, SMTT(60)
      <3>4. g.seen = frames[Len(frames)].seen /\ g.kind = "object"
            /\ g.count = CountWith(frames[Len(frames)], x)
        BY <2>2, <3>2, <3>3, Zenon
      <3>5. NamesDistinct(tokens') <=> x.name \notin g.seen
        BY <1>1, <3>1, <3>2, <3>4, NamesDecided, ZenonT(60)
      <3>6. CASE x.name \in g.seen
        <4>1. stage' = "malformed_json" /\ frames' = <<>>
          BY <2>4, <2>6, <3>3, <3>6, ZenonT(60)
        <4>2. QED
          BY <1>1, <2>3, <2>6, <3>5, <3>6, <4>1, SMTT(60) DEF Verdicts
      <3>7. CASE x.name \notin g.seen
        <4>1. /\ frames' = [c EXCEPT ![Len(c)] = Named(c[Len(c)], x.name)]
              /\ stage' = stage
          BY <2>4, <2>6, <3>3, <3>7, ZenonT(60)
        <4> DEFINE f == Named(g, x.name)
        <4>2. frames' = [c EXCEPT ![Len(c)] = f]
          BY <2>2, <3>2, <3>3, <4>1, ZenonT(60)
        <4>3. f \in FrameRecord /\ f.kind = g.kind /\ f.count = g.count
              /\ f.seen = g.seen \cup {x.name}
          BY <3>1, Zenon DEF FrameRecord, Named
        <4> HIDE DEF f
        <4>4. /\ frames' \in Seq(FrameRecord) /\ Len(frames') = Len(c) /\ frames'[Len(c)] = f
              /\ \A k \in 1..Len(c) : k # Len(c) => frames'[k] = c[k]
          BY <2>2, <3>2, <4>2, <4>3, TopReplaced
        <4>5. Grown(frames[Len(frames)], f, x)
          BY <3>1, <3>2, <3>4, <4>3, Zenon DEF Grown
        <4>6. Tracks(frames', tokens')
          <5>1. x.type # "longName"
            BY <3>1, Zenon
          <5>2. Len(frames') = Len(frames) /\ TopGrown(frames, frames', x)
            BY <2>2, <4>4, <4>5, Zenon DEF TopGrown
          <5>3. QED
            BY <1>1, <1>3, <3>1, <4>4, <5>1, <5>2, TracksRead, Zenon
        <4>7. QED
          BY <1>1, <2>3, <2>6, <3>5, <3>7, <4>1, <4>4, <4>6, ZenonT(60) DEF Verdicts
      <3>8. QED
        BY <3>6, <3>7, Zenon
    <2>7. ASSUME ~TooMany(x, c), ~IsName(x)
          PROVE  tokens' \in Seq(Token) /\ frames' \in Seq(FrameRecord) /\ Verdicts
      <3>1. NamesDistinct(tokens')
        BY <1>1, <2>7, NamesKept, Zenon
      <3>2. Len(frames) > 0 => Grown(frames[Len(frames)], c[Len(frames)], x)
        BY <2>2, <2>7, Zenon DEF Grown, IsName
      <3>3. x.type # "longName"
        BY <2>7, Zenon DEF IsName
      <3>4. CASE Opening(x)
        <4>1. frames' = Append(c, Frame(x)) /\ stage' = stage
          BY <2>4, <2>7, <3>4, Zenon
        <4>2. Frame(x) \in FrameRecord
          BY <3>4, Zenon DEF Frame, FrameRecord, Opening
        <4>3. PICK g \in FrameRecord : g = Frame(x)
          BY <4>2, Zenon
        <4>4. /\ frames' \in Seq(FrameRecord) /\ Len(frames') = Len(frames) + 1
              /\ frames'[Len(frames) + 1] = g
              /\ \A k \in 1..Len(frames) : frames'[k] = c[k]
          BY <2>2, <4>1, <4>3, AppendedStack, SMTT(60)
        <4>5. TopGrown(frames, frames', x)
          <5>1. Len(frames) > 0 => Len(frames) \in 1..Len(frames)
            BY SMTT(60)
          <5>2. Len(frames) > 0 => frames'[Len(frames)] = c[Len(frames)]
            BY <4>4, <5>1, Zenon
          <5>3. QED
            BY <2>2, <3>2, <4>4, <5>2, Zenon DEF TopGrown
        <4>6. Tracks(frames', tokens')
          BY <1>1, <3>4, <4>3, <4>4, <4>5, TracksOpened, Zenon
        <4>7. QED
          BY <1>1, <2>3, <2>7, <3>1, <4>1, <4>4, <4>6, Zenon DEF Verdicts
      <3>5. CASE ~Opening(x)
        <4>1. frames' = Settled(c) /\ stage' = stage
          BY <2>4, <2>7, <3>5, Zenon
        <4>2. /\ frames' \in Seq(FrameRecord) /\ Len(frames') = Len(frames)
              /\ \A k \in 1..Len(frames) : /\ frames'[k].kind = c[k].kind
                                           /\ frames'[k].count = c[k].count
                                           /\ frames'[k].seen = c[k].seen
                                           /\ k # Len(frames) => frames'[k] = c[k]
          BY <2>2, <4>1, SettledStack, ZenonT(60)
        <4>3. Len(frames) > 0 => Len(frames) \in 1..Len(frames)
          BY SMTT(60)
        <4>4. TopGrown(frames, frames', x)
          BY <2>2, <3>2, <4>2, <4>3, Zenon DEF Grown, TopGrown
        <4>5. Tracks(frames', tokens')
          BY <1>1, <1>3, <3>3, <3>5, <4>2, <4>4, TracksRead, Zenon
        <4>6. QED
          BY <1>1, <2>3, <2>7, <3>1, <4>1, <4>2, <4>5, Zenon DEF Verdicts
      <3>6. QED
        BY <3>4, <3>5
    <2>8. QED
      BY <2>5, <2>6, <2>7, Zenon
  <1>4. QED
    BY <1>2, <1>3, Zenon

-----------------------------------------------------------------------------
(* The first pass.  While it runs the stack is the open part of the text;   *)
(* the text is kept as long as it explains the verdict.                     *)
ValidatorInv ==
    /\ tokens \in Seq(Token) /\ frames \in Seq(FrameRecord)
    /\ stage = "validating" => Tracks(frames, tokens)
    /\ stage # "validating" => frames = <<>>
    /\ stage \notin {"validating", "validated", "limit_exceeded", "malformed_json"} =>
          tokens = <<>>
    /\ ValidatorExact

(* The empty text violates nothing. *)
LEMMA EmptyText == WithinLimits(<<>>) /\ NamesDistinct(<<>>)
  BY DEF WithinLimits, NamesDistinct

(* A parser that has read nothing satisfies the invariant. *)
LEMMA ValidatorStarts == ParserInit => ValidatorInv
  BY EmptyText DEF ParserInit, ValidatorInv, ValidatorExact

(* An empty stack after the first token means that the text is complete. *)
LEMMA StackEmpty ==
    ASSUME ValidatorInv, stage = "validating", tokens # <<>>, frames = <<>>
    PROVE  Complete(tokens)
  <1>1. Nesting(tokens, Len(tokens) + 1) = Len(frames)
    BY Zenon DEF ValidatorInv, Tracks
  <1>2. QED
    BY <1>1, Zenon DEF Complete

(* A token read by validateJSON keeps the invariant. *)
LEMMA ValidateStepKeeps == ValidatorInv /\ ValidateStep => ValidatorInv'
  <1> SUFFICES ASSUME ValidatorInv, ValidateStep PROVE ValidatorInv'
    OBVIOUS
  <1>1. PICK x \in Token : ReadToken(x)
    BY Zenon DEF ValidateStep
  <1>2. /\ frames \in Seq(FrameRecord) /\ tokens \in Seq(Token) /\ Tracks(frames, tokens)
        /\ WithinLimits(tokens) /\ NamesDistinct(tokens) /\ stage = "validating"
    BY Zenon DEF ValidateStep, ValidatorInv, ValidatorExact
  <1>3. tokens' \in Seq(Token) /\ frames' \in Seq(FrameRecord) /\ Verdicts
    BY <1>1, <1>2, ReadTokenDecides, ZenonT(60)
  <1>4. QED
    BY <1>3 DEF Verdicts, ValidatorInv, ValidatorExact

(* So do the start and the ends of validateJSON. *)
LEMMA ValidationKeeps ==
    ValidatorInv /\ (StartParse \/ ValidateFails \/ ValidateEnds \/ StartDocument)
      => ValidatorInv'
  <1> SUFFICES ASSUME ValidatorInv PROVE
        StartParse \/ ValidateFails \/ ValidateEnds \/ StartDocument => ValidatorInv'
    BY Zenon
  <1>1. ASSUME StartParse PROVE ValidatorInv'
    <2>1. tokens = <<>> /\ frames = <<>> /\ tokens' = <<>> /\ frames' = <<>>
      BY <1>1 DEF StartParse, ValidatorInv, json
    <2>2. stage' \in {"validating", "invalid_encoding"}
      BY <1>1, Zenon DEF StartParse
    <2>3. QED
      BY <2>1, <2>2, TracksNothing, EmptyText, ZenonT(60) DEF ValidatorInv, ValidatorExact
  <1>2. ASSUME ValidateFails PROVE ValidatorInv'
    BY <1>2, EmptyText, SMTT(60) DEF ValidateFails, ValidatorInv, ValidatorExact
  <1>3. ASSUME ValidateEnds PROVE ValidatorInv'
    <2>1. Complete(tokens)
      BY <1>3, StackEmpty, Zenon DEF ValidateEnds
    <2>2. tokens' = tokens /\ frames' = frames /\ frames = <<>> /\ stage = "validating"
          /\ stage' \in {"validated", "malformed_json"}
      BY <1>3, Zenon DEF ValidateEnds, json
    <2>3. QED
      BY <2>1, <2>2, Zenon DEF ValidatorInv, ValidatorExact
  <1>4. ASSUME StartDocument PROVE ValidatorInv'
    BY <1>4, EmptyText DEF StartDocument, ValidatorInv, ValidatorExact
  <1>5. QED
    BY <1>1, <1>2, <1>3, <1>4, ZenonT(60)

(* What the visits of parseDocument have in common: the stage, the text,    *)
(* and at most one warning.                                                 *)
Noted ==
    \E fields \in 0..MaxFields :
        /\ recordUnsupported(fields)
        /\ unsupported' = unsupported + (IF fields > 0 THEN 1 ELSE 0)
Unnoted == UNCHANGED <<unsupported, warnings, warningsTruncated>>

ParseSteps ==
    ParseInvalid \/ parseDocument \/ parseRun \/ parseTool \/ parseDriver
    \/ parseAutomationDetails \/ parseRule \/ parseInvocation \/ parseResult
    \/ parseMessage \/ parseLocation

Visited ==
    /\ stage = "parsing" /\ UNCHANGED json
    /\ stage' \in {"parsing", "accepted", "limit_exceeded", "invalid_sarif",
                   "unsupported_version", "cancelled"}
    /\ Noted \/ Unnoted

(* Every element that parseDocument accepts is noted in the same way. *)
LEMMA VisitsAlike ==
    ASSUME NEW parts, Visit(parts)
    PROVE  stage' \in {"parsing", "accepted"} /\ Noted
  BY DEF Visit, Noted

(* Every element that it refuses ends Parse in the same way. *)
LEMMA RejectsAlike ==
    ASSUME NEW code, Reject(code)
    PROVE  stage' = code /\ Unnoted
  BY Zenon DEF Reject, Unnoted

(* Each step of parseDocument does one or the other. *)
LEMMA ParseStepsAlike == ParseSteps => Visited
  <1> USE VisitsAlike, RejectsAlike DEF Visited
  <1>1. ParseInvalid => Visited
    BY DEF ParseInvalid
  <1>2. parseDocument => Visited
    BY DEF parseDocument, At
  <1>3. parseRun => Visited
    BY DEF parseRun, At
  <1>4. parseTool \/ parseAutomationDetails \/ parseInvocation \/ parseMessage => Visited
    BY DEF parseTool, parseAutomationDetails, parseInvocation, parseMessage, At
  <1>5. parseDriver => Visited
    BY DEF parseDriver, At
  <1>6. parseRule => Visited
    BY Zenon DEF parseRule, At, Unnoted
  <1>7. parseResult => Visited
    BY Zenon DEF parseResult, At
  <1>8. parseLocation => Visited
    BY Zenon DEF parseLocation, At
  <1>9. QED
    BY <1>1, <1>2, <1>3, <1>4, <1>5, <1>6, <1>7, <1>8, ZenonT(60) DEF ParseSteps

(* The second pass reads no token, and keeps what the first one             *)
(* established.                                                             *)
LEMMA ParsingKeeps == ValidatorInv /\ ParseSteps => ValidatorInv'
  <1> SUFFICES ASSUME ValidatorInv, Visited PROVE ValidatorInv'
    BY ParseStepsAlike, Zenon
  <1>1. tokens = <<>> /\ frames = <<>> /\ tokens' = <<>> /\ frames' = <<>>
    BY DEF Visited, ValidatorInv, json
  <1>2. QED
    BY <1>1, EmptyText, Zenon DEF Visited, ValidatorInv, ValidatorExact

(* For every text, of any length and nesting, and every limit: validateJSON *)
(* by its recursion decides what the positions of the tokens say, accepts   *)
(* only complete values within all limits and without duplicate names, and  *)
(* reports no limit that is not exceeded.                                   *)
THEOREM ReportValidatorExact == ReportSpec => []ValidatorExact
  <1>1. ReportInit => ValidatorInv
    BY ValidatorStarts DEF ReportInit
  <1>2. ValidatorInv /\ [ReportNext]_<<stream, parser>> => ValidatorInv'
    <2>1. ValidatorInv /\ UNCHANGED parser => ValidatorInv'
      BY DEF ValidatorInv, ValidatorExact, parser, json
    <2>2. QED
      BY <2>1, ValidateStepKeeps, ValidationKeeps, ParsingKeeps, ZenonT(60)
         DEF ReportNext, ParserNext, ParseSteps
  <1>3. ValidatorInv => ValidatorExact
    BY DEF ValidatorInv
  <1>4. QED
    BY <1>1, <1>2, <1>3, PTL DEF ReportSpec

-----------------------------------------------------------------------------
(* The second pass. *)

Warning == [fieldCount : Nat, fields : Nat, fieldsTruncated : BOOLEAN]

(* The accounts balance after every element, not only at the end. *)
WarningsInv ==
    /\ unsupported \in Nat /\ warnings \in Seq(Warning) /\ warningsTruncated \in BOOLEAN
    /\ Len(warnings) = Least(unsupported, MaxWarnings)
    /\ warningsTruncated <=> unsupported > Len(warnings)
    /\ \A i \in 1..Len(warnings) :
          /\ warnings[i].fields <= MaxUnsupportedFieldsPerWarning
          /\ warnings[i].fieldsTruncated <=> warnings[i].fieldCount > warnings[i].fields

(* Noting an element, with a warning or past the limit of warnings, keeps   *)
(* the accounts.                                                            *)
LEMMA NotedKeeps == WarningsInv /\ Noted => WarningsInv'
  <1> SUFFICES ASSUME WarningsInv, Noted PROVE WarningsInv'
    OBVIOUS
  <1>1. PICK n \in 0..MaxFields :
           /\ recordUnsupported(n)
           /\ unsupported' = unsupported + (IF n > 0 THEN 1 ELSE 0)
    BY Zenon DEF Noted
  <1>2. n \in Nat /\ MaxWarnings \in Nat \ {0} /\ MaxUnsupportedFieldsPerWarning \in Nat \ {0}
    BY ParserConstants, SMTT(60)
  <1>3. CASE n = 0
    BY <1>1, <1>3, SMTT(60) DEF WarningsInv, recordUnsupported
  <1>4. CASE n > 0 /\ Len(warnings) >= MaxWarnings
    <2>1. warnings' = warnings /\ warningsTruncated' = TRUE /\ unsupported' = unsupported + 1
      BY <1>1, <1>2, <1>4 DEF recordUnsupported
    <2>2. Len(warnings) = MaxWarnings /\ unsupported >= MaxWarnings
      BY <1>2, <1>4 DEF WarningsInv, Least
    <2>3. Len(warnings') = Least(unsupported', MaxWarnings)
      BY <1>2, <2>1, <2>2, SMTT(60) DEF WarningsInv, Least
    <2>4. unsupported' \in Nat /\ unsupported' > Len(warnings')
      BY <1>2, <2>1, <2>2, SMTT(60) DEF WarningsInv
    <2>5. QED
      BY <2>1, <2>3, <2>4, Zenon DEF WarningsInv
  <1>5. CASE n > 0 /\ ~(Len(warnings) >= MaxWarnings)
    <2> DEFINE w == [fieldCount |-> n, fields |-> Least(n, MaxUnsupportedFieldsPerWarning),
                     fieldsTruncated |-> n > MaxUnsupportedFieldsPerWarning]
    <2>1. /\ warnings' = Append(warnings, w) /\ warningsTruncated' = warningsTruncated
          /\ unsupported' = unsupported + 1
      BY <1>1, <1>2, <1>5, SMTT(60) DEF recordUnsupported
    <2>2. /\ w \in Warning /\ w.fields <= MaxUnsupportedFieldsPerWarning
          /\ w.fieldsTruncated <=> w.fieldCount > w.fields
      <3>1. PICK l \in Nat : l = Least(n, MaxUnsupportedFieldsPerWarning)
        BY <1>2, Zenon DEF Least
      <3>2. /\ l <= MaxUnsupportedFieldsPerWarning
            /\ n > MaxUnsupportedFieldsPerWarning <=> n > l
            /\ (n > MaxUnsupportedFieldsPerWarning) \in BOOLEAN
        BY <1>2, <3>1 DEF Least
      <3>3. /\ w.fields = l /\ w.fieldCount = n
            /\ w.fieldsTruncated <=> n > MaxUnsupportedFieldsPerWarning
        BY <3>1, Zenon
      <3>4. w \in Warning
        BY <1>2, <3>1, <3>2, Zenon DEF Warning
      <3>5. QED
        BY <3>2, <3>3, <3>4, Zenon
    <2> HIDE DEF w
    <2>3. /\ warnings' \in Seq(Warning) /\ Len(warnings') = Len(warnings) + 1
          /\ warnings'[Len(warnings) + 1] = w
          /\ \A i \in 1..Len(warnings) : warnings'[i] = warnings[i]
      BY <2>1, <2>2, SMTT(60) DEF WarningsInv
    <2>4. Len(warnings) = unsupported /\ ~warningsTruncated /\ Len(warnings) \in Nat
      BY <1>2, <1>5, SMTT(60) DEF WarningsInv, Least
    <2>5. Len(warnings') = Least(unsupported', MaxWarnings)
      BY <1>2, <1>5, <2>1, <2>3, <2>4, SMTT(60) DEF Least
    <2>6. warningsTruncated' <=> unsupported' > Len(warnings')
      BY <2>1, <2>3, <2>4, SMTT(60)
    <2>7. ASSUME NEW i \in 1..Len(warnings')
          PROVE  /\ warnings'[i].fields <= MaxUnsupportedFieldsPerWarning
                 /\ warnings'[i].fieldsTruncated <=> warnings'[i].fieldCount > warnings'[i].fields
      <3>1. i \in 1..Len(warnings) \/ i = Len(warnings) + 1
        BY <2>3, <2>4, SMTT(60)
      <3>2. CASE i \in 1..Len(warnings)
        BY <2>3, <3>2, Zenon DEF WarningsInv
      <3>3. CASE i = Len(warnings) + 1
        BY <2>2, <2>3, <3>3, ZenonT(60)
      <3>4. QED
        BY <3>1, <3>2, <3>3, Zenon
    <2>8. QED
      BY <2>1, <2>3, <2>4, <2>5, <2>6, <2>7, SMTT(60) DEF WarningsInv
  <1>6. QED
    BY <1>2, <1>3, <1>4, <1>5

(* For every document and all bounds on warnings: each element with unknown *)
(* fields has its warning, or the document says that warnings are missing,  *)
(* and it says so only if some are; likewise for the fields of a warning.   *)
THEOREM ReportWarningsAccounted == ReportSpec => []WarningsAccounted
  <1>1. ReportInit => WarningsInv
    <2>1. MaxWarnings \in Nat
      BY ParserConstants, Zenon
    <2> SUFFICES ASSUME ReportInit PROVE WarningsInv
      OBVIOUS
    <2>2. unsupported = 0 /\ warnings = <<>> /\ warningsTruncated = FALSE
      BY DEF ReportInit, ParserInit
    <2>3. Len(warnings) = Least(unsupported, MaxWarnings) /\ ~(unsupported > Len(warnings))
      BY <2>1, <2>2 DEF Least
    <2>4. warnings \in Seq(Warning) /\ 1..Len(warnings) = {}
      BY <2>2
    <2>5. QED
      BY <2>2, <2>3, <2>4, Zenon DEF WarningsInv
  <1>2. WarningsInv /\ [ReportNext]_<<stream, parser>> => WarningsInv'
    <2>1. WarningsInv /\ Unnoted => WarningsInv'
      BY DEF WarningsInv, Unnoted
    <2>2. UNCHANGED parser => Unnoted
      BY Zenon DEF parser, sarif, Unnoted
    <2>3. StartParse \/ ValidateStep \/ ValidateFails \/ ValidateEnds \/ StartDocument => Unnoted
      BY DEF StartParse, ValidateStep, ValidateFails, ValidateEnds, StartDocument, sarif, Unnoted
    <2>4. ParseSteps => Noted \/ Unnoted
      BY ParseStepsAlike, Zenon DEF Visited
    <2>5. QED
      BY <2>1, <2>2, <2>3, <2>4, NotedKeeps, ZenonT(60) DEF ReportNext, ParserNext, ParseSteps
  <1>3. WarningsInv => WarningsAccounted
    BY DEF WarningsInv, WarningsAccounted
  <1>4. QED
    BY <1>1, <1>2, <1>3, PTL DEF ReportSpec
=============================================================================
