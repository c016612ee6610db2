--------------------------- MODULE FramingProofs ---------------------------
(***************************************************************************)
(* For every size of the buffers, every set of lines and answers that fits *)
(* into them, every way of splitting a line and every moment of hanging    *)
(* up: what FramingProperties says of lines, answers and requests.         *)
(***************************************************************************)
EXTENDS FramingProperties, SequenceTheorems, TLAPS

----------------------------------------------------------------------------
(* Bytes and texts.                                                        *)

USE DEF Zero, NL

LEMMA BytesDiffer == Zero \notin Letters /\ NL \notin Letters /\ Zero # NL
BY DEF Letters

LEMMA LettersAreNat == Letters \subseteq Nat
BY DEF Letters

(* A text, as a sequence of letters that leaves room for one byte more.    *)
LEMMA TextFits ==
    ASSUME NEW m \in ClientLines \cup Answers
    PROVE  /\ Text[m] \in Seq(Letters) /\ Len(Text[m]) \in Nat
           /\ Len(Text[m]) >= 1 /\ Len(Text[m]) + 1 <= CMD_LEN
           /\ \A i \in 1 .. Len(Text[m]) : Text[m][i] \in Letters
<1>1. Text[m] \in Seq(Letters) /\ Len(Text[m]) \in 1 .. CMD_LEN - 1
      BY TextAssumption
<1>2. CMD_LEN \in Nat
      BY SizesAssumption
<1>3. \A i \in 1 .. Len(Text[m]) : Text[m][i] \in Letters
      BY <1>1, ElementOfSeq
<1> QED  BY <1>1, <1>2, <1>3

LEMMA LineOf ==
    ASSUME NEW m \in ClientLines \cup Answers
    PROVE  /\ Line(m) \in Seq(Letters \cup {NL})
           /\ Len(Line(m)) = Len(Text[m]) + 1
           /\ \A i \in 1 .. Len(Text[m]) : Line(m)[i] = Text[m][i]
           /\ Line(m)[Len(Text[m]) + 1] = NL
<1>1. Text[m] \in Seq(Letters \cup {NL}) /\ Len(Text[m]) \in Nat
      BY TextFits
<1> QED  BY <1>1, AppendProperties DEF Line

(* The first byte of an array that stops a text.                           *)
LEMMA FirstIs ==
    ASSUME NEW a, NEW Stop, NEW n \in DOMAIN a,
           DOMAIN a \subseteq Nat \ {0}, a[n] \in Stop,
           \A j \in 1 .. n - 1 : a[j] \notin Stop
    PROVE  First(a, Stop) = n
<1> DEFINE P(i) == a[i] \in Stop /\ \A j \in 1 .. i - 1 : a[j] \notin Stop
<1>1. ASSUME NEW i \in DOMAIN a, P(i)
      PROVE  i = n
  <2>1. i \in Nat \ {0} /\ n \in Nat \ {0}
        BY <1>1
  <2>2. ~(i < n)
        BY <1>1, <2>1
  <2>3. ~(n < i)
        BY <1>1, <2>1
  <2> QED  BY <2>1, <2>2, <2>3
<1>2. P(n)
      OBVIOUS
<1>3. (CHOOSE i \in DOMAIN a : P(i)) = n
      BY <1>1, <1>2
<1> QED  BY <1>3 DEF First

(* A text in an array that zeros fill.                                     *)
LEMMA ResponseOf ==
    ASSUME NEW a \in Answers
    PROVE  /\ put_response(a) \in [Array -> {Zero, NL} \cup Letters]
           /\ strlen(put_response(a)) = Len(Text[a])
           /\ prepare_response(put_response(a)) \in [Array -> {Zero, NL} \cup Letters]
           /\ res_len(put_response(a)) = Len(Text[a]) + 1
           /\ [i \in 1 .. res_len(put_response(a)) |->
                  prepare_response(put_response(a))[i]] = Line(a)
<1> DEFINE n == Len(Text[a])
           r == put_response(a)
<1>1. Text[a] \in Seq(Letters) /\ n \in Nat /\ n >= 1 /\ n + 1 <= CMD_LEN
      /\ \A i \in 1 .. n : Text[a][i] \in Letters
      BY TextFits
<1>2. CMD_LEN \in Nat
      BY SizesAssumption
<1>3. r = [i \in 1 .. CMD_LEN |-> IF i <= n THEN Text[a][i] ELSE Zero]
      BY DEF put_response, Array
<1> HIDE DEF n, r
<1>4. \A i \in 1 .. CMD_LEN : r[i] = IF i <= n THEN Text[a][i] ELSE Zero
      BY <1>3
<1>5. \A i \in 1 .. n : r[i] = Text[a][i] /\ r[i] \in Letters
      BY <1>1, <1>2, <1>4
<1>6. r[n + 1] = Zero /\ n + 1 \in 1 .. CMD_LEN /\ DOMAIN r = 1 .. CMD_LEN
      BY <1>1, <1>2, <1>3, <1>4
<1>7. r \in [1 .. CMD_LEN -> {Zero, NL} \cup Letters]
      BY <1>1, <1>2, <1>3
<1>8. First(r, {Zero}) = n + 1
  <2>1. \A j \in 1 .. (n + 1) - 1 : r[j] \notin {Zero}
        BY <1>1, <1>5, BytesDiffer
  <2>2. n + 1 \in DOMAIN r /\ DOMAIN r \subseteq Nat \ {0} /\ r[n + 1] \in {Zero}
        BY <1>1, <1>2, <1>6
  <2> QED  BY <2>1, <2>2, FirstIs
<1>9. strlen(r) = n
      BY <1>1, <1>8 DEF strlen
<1>10. prepare_response(r) = [r EXCEPT ![n + 1] = NL] /\ res_len(r) = n + 1
      BY <1>9 DEF prepare_response, res_len
<1>11. prepare_response(r) \in [1 .. CMD_LEN -> {Zero, NL} \cup Letters]
      BY <1>7, <1>10
<1>12. \A i \in 1 .. n + 1 : prepare_response(r)[i] = Line(a)[i]
  <2>1. \A i \in 1 .. n : prepare_response(r)[i] = Text[a][i]
        BY <1>1, <1>2, <1>5, <1>6, <1>10
  <2>2. prepare_response(r)[n + 1] = NL
        BY <1>6, <1>10
  <2> QED  BY <2>1, <2>2, <1>1, LineOf DEF n
<1>13. Line(a) = [i \in 1 .. n + 1 |-> Line(a)[i]]
      BY LineOf, LenProperties DEF n
<1>14. [i \in 1 .. res_len(r) |-> prepare_response(r)[i]] = Line(a)
      BY <1>10, <1>12, <1>13
<1> QED  BY <1>7, <1>9, <1>10, <1>11, <1>14 DEF r, n, Array

(* readLine of a line is its text.                                         *)
LEMMA TakenLine ==
    ASSUME NEW m \in ClientLines \cup Answers
    PROVE  SubSeq(Line(m), 1, First(Line(m), {NL}) - 1) = Text[m]
<1> DEFINE n == Len(Text[m])
<1>1. Text[m] \in Seq(Letters) /\ n \in Nat
      /\ \A i \in 1 .. n : Text[m][i] \in Letters
      BY TextFits
<1>2. /\ Line(m) \in Seq(Letters \cup {NL}) /\ Len(Line(m)) = n + 1
      /\ \A i \in 1 .. n : Line(m)[i] = Text[m][i]
      /\ Line(m)[n + 1] = NL
      BY LineOf
<1>3. n + 1 \in DOMAIN Line(m) /\ DOMAIN Line(m) \subseteq Nat \ {0}
      BY <1>1, <1>2, LenProperties
<1>4. \A j \in 1 .. (n + 1) - 1 : Line(m)[j] \notin {NL}
      BY <1>1, <1>2, BytesDiffer
<1> HIDE DEF n
<1>5. First(Line(m), {NL}) = n + 1
      BY <1>2, <1>3, <1>4, FirstIs
<1>6. \A i \in 1 .. n : Line(m)[i] \in Letters
      BY <1>1, <1>2
<1>7. /\ SubSeq(Line(m), 1, n) \in Seq(Letters)
      /\ Len(SubSeq(Line(m), 1, n)) = n
      /\ \A i \in 1 .. n : SubSeq(Line(m), 1, n)[i] = Text[m][i]
  <2>1. 1 \in Int /\ n \in Int
        BY <1>1
  <2>2. /\ SubSeq(Line(m), 1, n) \in Seq(Letters)
        /\ Len(SubSeq(Line(m), 1, n)) = IF 1 <= n THEN n - 1 + 1 ELSE 0
        /\ \A i \in 1 .. n - 1 + 1 : SubSeq(Line(m), 1, n)[i] = Line(m)[1 + i - 1]
        BY <1>6, <2>1, SubSeqProperties
  <2> QED  BY <1>1, <1>2, <2>2
<1>8. SubSeq(Line(m), 1, n) = Text[m]
      BY <1>1, <1>7, SeqEqual DEF n
<1> QED  BY <1>1, <1>5, <1>8

(* The record of an answer is its line.                                    *)
LEMMA AnswerSent ==
    ASSUME NEW a \in Answers, SendsAnswer(a)
    PROVE  /\ answer' = a
           /\ records' = IF peer = "open" THEN Append(records, Line(a)) ELSE records
BY ResponseOf DEF SendsAnswer, send_msg

----------------------------------------------------------------------------
(* read_msg.                                                               *)

(* A piece that fits is copied as a whole, and nothing else.               *)
LEMMA PieceCopied ==
    ASSUME TypeOK, CopyInv, pc = "read", asked # NoLine,
           NEW k \in 1 .. BUFFER_SIZE, taken + k <= Len(Line(asked))
    PROVE  /\ Copied(k) \in [Array -> {Zero, NL} \cup Letters]
           /\ \A i \in 1 .. Len(Text[asked]) :
                  i <= taken + k => Copied(k)[i] = Text[asked][i]
           /\ taken + k = Len(Line(asked)) => Copied(k)[Len(Line(asked))] = NL
           /\ \A i \in Array : taken + k < i => Copied(k)[i] = cmd[i]
<1> DEFINE n == Len(Text[asked])
<1>1. asked \in ClientLines
      BY DEF TypeOK
<1>2. /\ Text[asked] \in Seq(Letters) /\ n \in Nat /\ n >= 1 /\ n + 1 <= CMD_LEN
      /\ \A i \in 1 .. n : Text[asked][i] \in Letters
      BY <1>1, TextFits
<1>3. /\ Len(Line(asked)) = n + 1
      /\ \A i \in 1 .. n : Line(asked)[i] = Text[asked][i]
      /\ Line(asked)[n + 1] = NL
      BY <1>1, LineOf
<1>4. CMD_LEN \in Nat /\ BUFFER_SIZE \in Nat /\ taken \in Nat /\ k \in Nat /\ k >= 1
  <2>1. CMD_LEN \in Nat /\ BUFFER_SIZE \in Nat
        BY SizesAssumption
  <2>2. taken \in 0 .. CMD_LEN
        BY DEF TypeOK
  <2> QED  BY <2>1, <2>2
<1>5. taken <= n
      BY <1>2, <1>3, <1>4
<1>6. \A i \in 1 .. n : i <= taken => cmd[i] = Text[asked][i]
      BY <1>5 DEF CopyInv, Arriving
<1>7. cmd \in [1 .. CMD_LEN -> {Zero, NL} \cup Letters]
      BY DEF TypeOK, Array
<1> HIDE DEF n
<1>8. ~(taken + k > CMD_LEN)
      BY <1>2, <1>3, <1>4
<1>9. Copied(k) = [i \in 1 .. CMD_LEN |-> IF i \in taken + 1 .. taken + k
                                            THEN Line(asked)[i] ELSE cmd[i]]
      BY <1>8 DEF Copied, Array
<1>10. \A i \in 1 .. n + 1 : Line(asked)[i] \in {Zero, NL} \cup Letters
      BY <1>2, <1>3
<1>11. Copied(k) \in [1 .. CMD_LEN -> {Zero, NL} \cup Letters]
      BY <1>2, <1>3, <1>4, <1>7, <1>9, <1>10
<1>12. \A i \in 1 .. n : i <= taken + k => Copied(k)[i] = Text[asked][i]
      BY <1>2, <1>3, <1>4, <1>6, <1>9
<1>13. taken + k = n + 1 => Copied(k)[n + 1] = NL
      BY <1>2, <1>3, <1>4, <1>5, <1>9
<1>14. \A i \in 1 .. CMD_LEN : taken + k < i => Copied(k)[i] = cmd[i]
      BY <1>4, <1>9
<1> QED  BY <1>3, <1>11, <1>12, <1>13, <1>14 DEF n, Array

(* With the last piece "\n" becomes the zero that ends the line.           *)
LEMMA LineStripped ==
    ASSUME TypeOK, CopyInv, pc = "read", asked # NoLine,
           NEW k \in 1 .. BUFFER_SIZE, taken + k = Len(Line(asked))
    PROVE  Stripped(Copied(k)) = [Copied(k) EXCEPT ![Len(Line(asked))] = Zero]
<1> DEFINE n == Len(Text[asked])
<1>1. asked \in ClientLines
      BY DEF TypeOK
<1>2. /\ n \in Nat /\ n >= 1 /\ n + 1 <= CMD_LEN
      /\ \A i \in 1 .. n : Text[asked][i] \in Letters
      BY <1>1, TextFits
<1>3. Len(Line(asked)) = n + 1 /\ CMD_LEN \in Nat
      BY <1>1, LineOf, SizesAssumption
<1>4. taken + k <= Len(Line(asked))
      BY <1>2, <1>3
<1>5. /\ Copied(k) \in [Array -> {Zero, NL} \cup Letters]
      /\ \A i \in 1 .. n : i <= taken + k => Copied(k)[i] = Text[asked][i]
      /\ Copied(k)[n + 1] = NL
      BY <1>3, <1>4, PieceCopied
<1> HIDE DEF n
<1>6. \A j \in 1 .. (n + 1) - 1 : Copied(k)[j] \notin {Zero, NL}
      BY <1>2, <1>3, <1>5, BytesDiffer
<1>7. n + 1 \in DOMAIN Copied(k) /\ DOMAIN Copied(k) \subseteq Nat \ {0}
      /\ Copied(k)[n + 1] \in {Zero, NL}
      BY <1>2, <1>3, <1>5 DEF Array
<1>8. First(Copied(k), {Zero, NL}) = n + 1
      BY <1>6, <1>7, FirstIs
<1>9. strcspn(Copied(k)) + 1 = n + 1
      BY <1>2, <1>8 DEF strcspn
<1> QED  BY <1>3, <1>9 DEF Stripped

----------------------------------------------------------------------------
(* The invariant holds at first.                                           *)

LEMMA Places ==
    /\ CMD_LEN \in Nat /\ BUFFER_SIZE \in Nat
    /\ "PICTURE" \in ClientLines /\ "PICTURE" # NoLine
    /\ "PICTURE_OK" \in Answers /\ "PICTURE_ERR" \in Answers
    /\ NoLine \notin ClientLines /\ NoLine \notin Answers
    /\ LastOf \in Nat /\ LastOf >= 1 /\ LastOf + 1 <= CMD_LEN
    /\ Text["PICTURE"][LastOf] \in Letters
<1>1. /\ CMD_LEN \in Nat /\ BUFFER_SIZE \in Nat
      /\ "PICTURE" \in ClientLines /\ "PICTURE_OK" \in Answers
      /\ "PICTURE_ERR" \in Answers
      /\ NoLine \notin ClientLines /\ NoLine \notin Answers
      BY SizesAssumption, PictureAssumption, TextAssumption
<1>2. LastOf \in Nat /\ LastOf >= 1 /\ LastOf + 1 <= CMD_LEN
      /\ \A i \in 1 .. LastOf : Text["PICTURE"][i] \in Letters
      BY <1>1, TextFits DEF LastOf
<1> QED  BY <1>1, <1>2

LEMMA ZerosAre ==
    /\ Zeros \in [Array -> {Zero, NL} \cup Letters]
    /\ \A i \in 1 .. CMD_LEN : Zeros[i] = Zero
BY DEF Zeros, Array

LEMMA Begins == Init => TypeOK /\ IInv
<1> SUFFICES ASSUME Init
             PROVE  TypeOK /\ IInv
    OBVIOUS
<1>1. TypeOK
      BY Places, ZerosAre DEF Init, TypeOK
<1>2. CopyInv
      BY Places, ZerosAre, SizesAssumption DEF Init, CopyInv, Arriving
<1>3. LockStepInv
      BY DEF Init, LockStepInv, Arriving
<1>4. PictureInv
  <2>1. cmd[LastOf] = Zero /\ Text["PICTURE"][LastOf] \in Letters
        BY Places, ZerosAre DEF Init
  <2>2. ~EndsAsPicture
        BY <2>1, BytesDiffer DEF EndsAsPicture
  <2>3. OnlySentLinesActedOn
        BY Places DEF Init, OnlySentLinesActedOn
  <2> QED  BY <2>2, <2>3 DEF PictureInv, Init
<1>5. ImageInv
      BY DEF Init, ImageInv
<1> QED  BY <1>1, <1>2, <1>3, <1>4, <1>5 DEF IInv

----------------------------------------------------------------------------
(* Every step keeps the types.                                             *)

LEMMA LineIsBytes ==
    ASSUME NEW a \in Answers
    PROVE  Line(a) \in Seq(Nat)
<1>1. Line(a) \in Seq(Letters \cup {NL}) /\ Letters \cup {NL} \subseteq Nat
      BY LineOf, LettersAreNat
<1> QED  BY <1>1, SeqMonotonic

LEMMA RecordsTyped ==
    ASSUME TypeOK, NEW msg \in Seq(Nat), send_msg(msg)
    PROVE  records' \in Seq(Seq(Nat))
BY AppendProperties DEF TypeOK, send_msg

LEMMA AnswerTyped ==
    ASSUME TypeOK, NEW a \in Answers, SendsAnswer(a)
    PROVE  records' \in Seq(Seq(Nat)) /\ answer' \in Answers
<1>1. records \in Seq(Seq(Nat)) /\ Line(a) \in Seq(Nat)
      BY LineIsBytes DEF TypeOK
<1>2. Append(records, Line(a)) \in Seq(Seq(Nat))
      BY <1>1, AppendProperties
<1> QED  BY <1>1, <1>2, AnswerSent

(* How much of the picture was read, and how much is left.                 *)
LEMMA PlaceInPicture ==
    ASSUME TypeOK
    PROVE  size \in Nat /\ read \in 0 .. size
<1>1. size \in FileSizes \cup {0} /\ read \in 0 .. size
      BY DEF TypeOK
<1>2. FileSizes \cup {0} \subseteq Nat
      BY SizesAssumption
<1> QED  BY ONLY <1>1, <1>2

LEMMA ChunkIsBytes ==
    ASSUME TypeOK, NEW n \in Nat
    PROVE  fread(n) \in Seq(Nat)
<1>1. size \in Nat /\ read \in Nat /\ BUFFER_SIZE \in Nat
      BY PlaceInPicture, SizesAssumption
<1>2. \A i \in 1 .. BUFFER_SIZE : PictureByte(read + i) \in Nat
      BY <1>1 DEF PictureByte
<1>3. fread(n) \in [1 .. BUFFER_SIZE -> Nat]
      BY <1>2 DEF fread
<1> QED  BY <1>1, <1>3, SeqDef

LEMMA KeepsType ==
    ASSUME TypeOK, IInv, [Next]_vars
    PROVE  TypeOK'
<1> USE Places
<1>1. ASSUME NEW k \in 1 .. BUFFER_SIZE, Reads(k)
      PROVE  TypeOK'
  <2>1. asked \in ClientLines /\ pc = "read" /\ asked # NoLine
        /\ taken + k <= Len(Line(asked)) /\ taken' = taken + k
        BY <1>1 DEF TypeOK, Reads
  <2>2. Copied(k) \in [Array -> {Zero, NL} \cup Letters]
        BY <2>1, PieceCopied DEF IInv
  <2>3. cmd' \in [Array -> {Zero, NL} \cup Letters]
        BY <1>1, <2>2 DEF Reads, Stripped
  <2>4. taken' \in 0 .. CMD_LEN
    <3>1. Len(Text[asked]) \in Nat /\ Len(Text[asked]) + 1 <= CMD_LEN
          BY <2>1, TextFits
    <3>3. Len(Line(asked)) = Len(Text[asked]) + 1
          BY <2>1, LineOf
    <3>2. taken \in Nat /\ k \in Nat
          BY DEF TypeOK
    <3> QED  BY <2>1, <3>1, <3>2, <3>3
  <2>5. pc' \in {"read", "handle"}
        BY <1>1, <2>1 DEF Reads
  <2> QED  BY <1>1, <2>3, <2>4, <2>5 DEF TypeOK, Reads, clientVars, sendVars
<1>2. CASE ReadFails
      BY <1>2 DEF TypeOK, ReadFails, clientVars, sendVars
<1>3. CASE HandleCommand
  <2>1. records' \in Seq(Seq(Nat)) /\ answer' \in Answers
        BY <1>3, AnswerTyped DEF HandleCommand
  <2> QED  BY <1>3, <2>1, ZerosAre DEF TypeOK, HandleCommand, clientVars
<1>4. CASE RejectsLine
  <2>1. records' \in Seq(Seq(Nat)) /\ answer' \in Answers
        BY <1>4, AnswerTyped DEF RejectsLine
  <2>2. response' \in [Array -> {Zero, NL} \cup Letters]
        BY <1>4, ResponseOf DEF RejectsLine
  <2> QED  BY <1>4, <2>1, <2>2 DEF TypeOK, RejectsLine, clientVars
<1>5. CASE RejectsPicture
  <2>1. records' \in Seq(Seq(Nat)) /\ answer' \in Answers
        BY <1>5, AnswerTyped DEF RejectsPicture
  <2>2. response' \in [Array -> {Zero, NL} \cup Letters]
        BY <1>5, ResponseOf DEF RejectsPicture
  <2> QED  BY <1>5, <2>1, <2>2 DEF TypeOK, RejectsPicture, clientVars
<1>6. CASE AcceptsPicture
  <2>1. records' \in Seq(Seq(Nat)) /\ answer' \in Answers
        BY <1>6, AnswerTyped DEF AcceptsPicture
  <2>2. response' \in [Array -> {Zero, NL} \cup Letters]
        BY <1>6, ResponseOf DEF AcceptsPicture
  <2>3. size' \in FileSizes /\ read' \in 0 .. size'
        BY <1>6, SizesAssumption DEF AcceptsPicture
  <2> QED  BY <1>6, <2>1, <2>2, <2>3 DEF TypeOK, AcceptsPicture, clientVars
<1>7. CASE SendsChunk
  <2>1. records' \in Seq(Seq(Nat))
        BY <1>7, ChunkIsBytes, RecordsTyped DEF SendsChunk
  <2>2. size \in Nat /\ read \in Nat /\ read + BUFFER_SIZE <= size
    <3>1. size \in Nat /\ read \in 0 .. size
          BY PlaceInPicture
    <3>2. size - read >= BUFFER_SIZE
          BY <1>7 DEF SendsChunk
    <3> QED  BY <3>1, <3>2
  <2>3. read' \in 0 .. size'
        BY <1>7, <2>2 DEF SendsChunk
  <2> QED  BY <1>7, <2>1, <2>3 DEF TypeOK, SendsChunk, clientVars
<1>8. CASE SendsRest
  <2>1. size \in Nat /\ read \in 0 .. size
        BY PlaceInPicture
  <2>2. records' \in Seq(Seq(Nat))
    <3>1. CASE size - read > 0
      <4>1. size - read \in Nat /\ send_msg(fread(size - read))
            BY <1>8, <2>1, <3>1 DEF SendsRest
      <4> QED  BY <4>1, ChunkIsBytes, RecordsTyped
    <3>2. CASE ~(size - read > 0)
          BY <1>8, <3>2 DEF SendsRest, TypeOK
    <3> QED  BY <3>1, <3>2
  <2>3. read' \in 0 .. size'
        BY <1>8, <2>1 DEF SendsRest
  <2> QED  BY <1>8, <2>2, <2>3, ZerosAre DEF TypeOK, SendsRest, clientVars
<1>9. ASSUME NEW m \in ClientLines, Asks(m)
      PROVE  TypeOK'
      BY <1>9, EmptySeq DEF TypeOK, Asks, sendVars
<1>10. CASE TakesAnswer
  <2>1. answer \in Answers /\ Head(records) = Line(answer)
        BY <1>10 DEF TakesAnswer, IInv, LockStepInv
  <2>2. told' \in Seq(Letters)
        BY <1>10, <2>1, TakenLine, TextFits DEF TakesAnswer
  <2>3. records' \in Seq(Seq(Nat))
        BY <1>10, HeadTailProperties DEF TakesAnswer, TypeOK
  <2> QED  BY <1>10, <2>2, <2>3 DEF TypeOK, TakesAnswer
<1>11. CASE TakesImageBytes
  <2>1. Head(records) \in Seq(Nat) /\ records' \in Seq(Seq(Nat))
        BY <1>11, HeadTailProperties DEF TakesImageBytes, TypeOK
  <2>2. image' \in Seq(Nat)
        BY <1>11, <2>1, ConcatProperties DEF TakesImageBytes, TypeOK
  <2> QED  BY <1>11, <2>1, <2>2 DEF TypeOK, TakesImageBytes
<1>12. CASE HangsUp
      BY <1>12, EmptySeq DEF TypeOK, HangsUp
<1>13. CASE NextClient
      BY <1>13, EmptySeq DEF TypeOK, NextClient
<1>14. CASE UNCHANGED vars
      BY <1>14 DEF TypeOK, vars, clientVars, sendVars
<1> QED
    BY <1>1, <1>2, <1>3, <1>4, <1>5, <1>6, <1>7, <1>8, <1>9, <1>10, <1>11,
       <1>12, <1>13, <1>14 DEF Next

----------------------------------------------------------------------------
(* Every step keeps what is copied in its place.                           *)

LEMMA CopyStep ==
    ASSUME TypeOK, IInv, [Next]_vars
    PROVE  CopyInv'
<1> USE Places
<1>0. CopyInv /\ LockStepInv
      BY DEF IInv
<1>1. ASSUME NEW k \in 1 .. BUFFER_SIZE, Reads(k)
      PROVE  CopyInv'
  <2> DEFINE n == Len(Text[asked])
  <2>1. asked \in ClientLines /\ pc = "read" /\ asked # NoLine
        /\ taken + k <= Len(Line(asked)) /\ taken' = taken + k
        /\ asked' = asked /\ port' = port
        BY <1>1 DEF TypeOK, Reads, clientVars
  <2>2. n \in Nat /\ n >= 1 /\ n + 1 <= CMD_LEN /\ Len(Line(asked)) = n + 1
        BY <2>1, TextFits, LineOf
  <2>3. taken \in Nat /\ k \in Nat /\ k >= 1 /\ taken + k <= n + 1
        BY <2>1, <2>2 DEF TypeOK
  <2>4. /\ Copied(k) \in [Array -> {Zero, NL} \cup Letters]
        /\ \A i \in 1 .. n : i <= taken + k => Copied(k)[i] = Text[asked][i]
        /\ \A i \in Array : taken + k < i => Copied(k)[i] = cmd[i]
        BY <1>0, <2>1, PieceCopied
  <2>5. cmd[CMD_LEN] = Zero
        BY <1>0, <2>1 DEF CopyInv
  <2> HIDE DEF n
  <2>6. CASE taken + k = n + 1
    <3>1. cmd' = [Copied(k) EXCEPT ![n + 1] = Zero] /\ pc' = "handle"
          BY <1>0, <1>1, <2>1, <2>2, <2>6, LineStripped DEF Reads
    <3>2. \A i \in 1 .. n : cmd'[i] = Text[asked][i]
      <4>1. CMD_LEN \in Nat /\ 1 .. n \subseteq Array
            BY <2>2 DEF Array
      <4>2. ASSUME NEW i \in 1 .. n
            PROVE  cmd'[i] = Text[asked][i]
        <5>1. i <= taken + k /\ i # n + 1 /\ i \in Array
              BY <2>2, <2>6, <4>1
        <5>2. Copied(k)[i] = Text[asked][i] /\ cmd'[i] = Copied(k)[i]
              BY <2>4, <3>1, <5>1
        <5> QED  BY <5>2
      <4> QED  BY <4>2
    <3>3. cmd'[n + 1] = Zero /\ cmd'[CMD_LEN] = Zero
          BY <2>2, <2>4, <2>5, <2>6, <3>1 DEF Array
    <3> QED  BY <2>1, <2>2, <2>3, <2>6, <3>1, <3>2, <3>3
             DEF CopyInv, Arriving, n
  <2>7. CASE taken + k # n + 1
    <3>1. cmd' = Copied(k) /\ pc' = "read" /\ taken' <= n
          BY <1>1, <2>1, <2>2, <2>3, <2>7 DEF Reads
    <3>2. cmd'[CMD_LEN] = Zero
          BY <2>2, <2>3, <2>4, <2>5, <2>7, <3>1 DEF Array
    <3> QED  BY <2>1, <2>2, <2>3, <2>4, <3>1, <3>2
             DEF CopyInv, Arriving, n
  <2> QED  BY <2>6, <2>7
<1>2. CASE ReadFails
  <2>1. CASE port = "image" /\ asked # NoLine
    <3>1. asked \in ClientLines
          BY <2>1 DEF TypeOK
    <3>2. Len(Text[asked]) \in Nat /\ taken \in Nat
          BY <3>1, TextFits DEF TypeOK
    <3>3. taken <= Len(Text[asked]) /\ Arriving
          BY <1>0, <1>2, <2>1 DEF ReadFails, CopyInv, Arriving
    <3> QED  BY <1>0, <1>2, <2>1, <3>2, <3>3
             DEF ReadFails, CopyInv, Arriving, clientVars
  <2>2. CASE port # "image" \/ asked = NoLine
        BY <1>0, <1>2, <2>2 DEF ReadFails, CopyInv, Arriving, clientVars, TypeOK
  <2> QED  BY <2>1, <2>2
<1>3. CASE HandleCommand
  <2>1. asked # NoLine /\ taken = Len(Text[asked]) + 1
        BY <1>0, <1>3 DEF HandleCommand, CopyInv
  <2>2. asked \in ClientLines
        BY <2>1 DEF TypeOK
  <2>3. Len(Text[asked]) \in Nat
        BY <2>2, TextFits
  <2>4. cmd'[CMD_LEN] = Zero
        BY <1>3, ZerosAre, SizesAssumption DEF HandleCommand
  <2> QED  BY <1>0, <1>3, <2>1, <2>3, <2>4
           DEF HandleCommand, CopyInv, Arriving, clientVars
<1>4. CASE RejectsLine
      BY <1>0, <1>4 DEF RejectsLine, CopyInv, Arriving, clientVars
<1>5. CASE RejectsPicture
      BY <1>0, <1>5 DEF RejectsPicture, CopyInv, Arriving, clientVars
<1>6. CASE AcceptsPicture
      BY <1>0, <1>6 DEF AcceptsPicture, CopyInv, Arriving, clientVars
<1>7. CASE SendsChunk
      BY <1>0, <1>7 DEF SendsChunk, CopyInv, Arriving, clientVars
<1>8. CASE SendsRest
  <2>1. cmd'[CMD_LEN] = Zero
        BY <1>8, ZerosAre, SizesAssumption DEF SendsRest
  <2> QED  BY <1>0, <1>8, <2>1 DEF SendsRest, CopyInv, Arriving, clientVars
<1>9. ASSUME NEW m \in ClientLines, Asks(m)
      PROVE  CopyInv'
  <2>1. Len(Text[m]) \in Nat
        BY TextFits
  <2>2. ~(port = "command" /\ pc = "handle")
        BY <1>0, <1>9 DEF Asks, CopyInv, LockStepInv
  <2>3. m # NoLine
        OBVIOUS
  <2> QED  BY <1>0, <1>9, <2>1, <2>2, <2>3 DEF Asks, CopyInv, Arriving
<1>10. CASE TakesAnswer
      BY <1>0, <1>10 DEF TakesAnswer, CopyInv, Arriving
<1>11. CASE TakesImageBytes
      BY <1>0, <1>11 DEF TakesImageBytes, CopyInv, Arriving
<1>12. CASE HangsUp
      BY <1>0, <1>12 DEF HangsUp, CopyInv, Arriving
<1>13. CASE NextClient
      BY <1>0, <1>13 DEF NextClient, CopyInv, Arriving
<1>14. CASE UNCHANGED vars
      BY <1>0, <1>14 DEF CopyInv, Arriving, vars, clientVars
<1> QED
    BY <1>1, <1>2, <1>3, <1>4, <1>5, <1>6, <1>7, <1>8, <1>9, <1>10, <1>11,
       <1>12, <1>13, <1>14 DEF Next

----------------------------------------------------------------------------
(* Every step keeps the lock-step of lines and answers.                    *)

LEMMA TextNotEmpty ==
    ASSUME NEW a \in Answers
    PROVE  Text[a] # <<>>
<1>1. Text[a] \in Seq(Letters) /\ Len(Text[a]) >= 1
      BY TextFits
<1> QED  BY <1>1, EmptySeq

(* An answer becomes the only record of its client.                        *)
LEMMA FirstRecord ==
    ASSUME NEW a \in Answers, SendsAnswer(a), records = <<>>
    PROVE  /\ answer' = a
           /\ peer = "open" => records' # <<>>
           /\ peer # "open" => records' = <<>>
           /\ records' # <<>> => Head(records') = Line(a)
           /\ Len(records') \in 0 .. 1
<1>1. records \in Seq(Seq(Nat)) /\ Line(a) \in Seq(Nat) /\ Len(records) = 0
      BY LineIsBytes, EmptySeq
<1>2. /\ Append(records, Line(a)) \in Seq(Seq(Nat))
      /\ Len(Append(records, Line(a))) = 1
      /\ Append(records, Line(a))[1] = Line(a)
      BY <1>1, AppendProperties
<1>3. Append(records, Line(a)) # <<>> /\ Head(Append(records, Line(a))) = Line(a)
      BY <1>2, EmptySeq, HeadTailProperties
<1> QED  BY <1>1, <1>2, <1>3, AnswerSent

(* A chunk is behind what is there already.                                *)
LEMMA ChunkBehind ==
    ASSUME TypeOK, NEW msg \in Seq(Nat), send_msg(msg)
    PROVE  /\ peer = "open" => records' # <<>>
           /\ peer # "open" => records' = records
           /\ records # <<>> => Head(records') = Head(records)
<1>1. records \in Seq(Seq(Nat)) /\ Len(records) \in Nat
      BY LenProperties DEF TypeOK
<1>2. Len(Append(records, msg)) = Len(records) + 1
      BY <1>1, AppendProperties
<1>3. Append(records, msg) # <<>>
  <2>1. Len(Append(records, msg)) # 0 /\ Len(<<>>) = 0
        BY <1>1, <1>2, EmptySeq
  <2> QED  BY <2>1
<1>4. records # <<>> => Head(Append(records, msg)) = Head(records)
      BY <1>1, HeadTailAppend
<1> QED  BY <1>3, <1>4 DEF send_msg

LEMMA LockStep ==
    ASSUME TypeOK, IInv, [Next]_vars
    PROVE  LockStepInv'
<1> USE Places
<1>0. CopyInv /\ LockStepInv /\ OnlySentLinesActedOn
      BY DEF IInv, PictureInv
<1>1. ASSUME NEW k \in 1 .. BUFFER_SIZE, Reads(k)
      PROVE  LockStepInv'
  <2>1. asked \in ClientLines /\ asked # NoLine /\ taken + k <= Len(Line(asked))
        BY <1>1 DEF TypeOK, Reads
  <2>2. Len(Text[asked]) \in Nat /\ Len(Line(asked)) = Len(Text[asked]) + 1
        BY <2>1, TextFits, LineOf
  <2>3. taken <= Len(Text[asked])
        BY <2>1, <2>2 DEF TypeOK
  <2>4. told = <<>> /\ records = <<>>
        BY <1>0, <1>1, <2>1, <2>3 DEF LockStepInv, Arriving, Reads
  <2>5. pc' \in {"read", "handle"}
        BY <1>1 DEF Reads
  <2> QED  BY <1>0, <1>1, <2>1, <2>4, <2>5
           DEF LockStepInv, Reads, clientVars, sendVars
<1>2. CASE ReadFails
  <2>1. pc = "read" /\ records = <<>>
        BY <1>0, <1>2 DEF ReadFails, LockStepInv
  <2>2. port = "image" => told = <<>>
        BY <1>0, <2>1 DEF CopyInv, LockStepInv, Arriving
  <2> QED  BY <1>0, <1>2, <2>1, <2>2
           DEF ReadFails, LockStepInv, Arriving, TypeOK, clientVars, sendVars
<1>3. CASE HandleCommand
  <2>1. told = <<>> /\ records = <<>> /\ asked # NoLine
        /\ taken = Len(Text[asked]) + 1
        BY <1>0, <1>3 DEF HandleCommand, CopyInv, LockStepInv
  <2>2. asked \in ClientLines
        BY <2>1 DEF TypeOK
  <2>3. ~(taken <= Len(Text[asked]))
        BY <2>1, <2>2, TextFits
  <2>4. PICK a \in Answers : SendsAnswer(a)
        BY <1>3 DEF HandleCommand
  <2>5. /\ answer' = a
        /\ peer # "open" => records' = <<>>
        /\ records' # <<>> => Head(records') = Line(a)
        /\ Len(records') \in 0 .. 1
        BY <2>1, <2>4, FirstRecord
  <2>6. Len(records') <= 1
        BY <2>5
  <2> QED  BY <1>0, <1>3, <2>1, <2>3, <2>5, <2>6
           DEF HandleCommand, LockStepInv, Arriving, clientVars
<1>4. ASSUME NEW a \in Answers, SendsAnswer(a), pc = "handle", port = "image",
             pc' \in {"shut", "gone", "picture"}, UNCHANGED clientVars
      PROVE  LockStepInv'
  <2>1. told = <<>> /\ records = <<>>
        BY <1>0, <1>4 DEF LockStepInv
  <2>2. asked = NoLine => peer # "open"
        BY <1>0, <1>4 DEF LockStepInv
  <2>3. /\ answer' = a
        /\ peer = "open" => records' # <<>>
        /\ peer # "open" => records' = <<>>
        /\ records' # <<>> => Head(records') = Line(a)
        BY <1>4, <2>1, FirstRecord
  <2> QED  BY <1>0, <1>4, <2>1, <2>2, <2>3 DEF LockStepInv, Arriving, clientVars
<1>5. CASE RejectsLine
      BY <1>4, <1>5 DEF RejectsLine
<1>6. CASE RejectsPicture
      BY <1>4, <1>6 DEF RejectsPicture
<1>7. CASE AcceptsPicture
      BY <1>4, <1>7 DEF AcceptsPicture
<1>8. ASSUME pc = "picture", pc' \in {"picture", "shut"},
             \/ UNCHANGED records
             \/ \E n \in Nat : send_msg(fread(n)),
             UNCHANGED <<clientVars, answer>>
      PROVE  LockStepInv'
  <2>1. port = "image" /\ asked # NoLine
        BY <1>0, <1>8 DEF LockStepInv, OnlySentLinesActedOn, TypeOK
  <2>2. /\ peer # "open" => records' = records
        /\ records # <<>> => records' # <<>> /\ Head(records') = Head(records)
        /\ peer = "open" /\ records' = <<>> => records = <<>>
    <3>1. CASE UNCHANGED records
          BY <3>1
    <3>2. ASSUME NEW n \in Nat, send_msg(fread(n))
          PROVE  /\ peer # "open" => records' = records
                 /\ records # <<>> => records' # <<>> /\ Head(records') = Head(records)
                 /\ peer = "open" => records' # <<>>
      <4>1. /\ peer = "open" => records' # <<>>
            /\ peer # "open" => records' = records
            /\ records # <<>> => Head(records') = Head(records)
            BY <3>2, ChunkIsBytes, ChunkBehind
      <4> QED  BY <4>1
    <3> QED  BY <1>8, <3>1, <3>2
  <2>3. told = <<>> /\ records' # <<>> => records # <<>>
        BY <1>0, <1>8, <2>2 DEF LockStepInv
  <2> QED  BY <1>0, <1>8, <2>1, <2>2, <2>3
           DEF LockStepInv, Arriving, clientVars
<1>9. CASE SendsChunk
  <2>1. BUFFER_SIZE \in Nat
        OBVIOUS
  <2> QED  BY <1>8, <1>9, <2>1 DEF SendsChunk
<1>10. CASE SendsRest
  <2>1. size - read > 0 => size - read \in Nat
        BY SizesAssumption DEF TypeOK
  <2> QED  BY <1>8, <1>10, <2>1 DEF SendsRest
<1>11. ASSUME NEW m \in ClientLines, Asks(m)
       PROVE  LockStepInv'
  <2>1. records = <<>> /\ pc # "picture" /\ m # NoLine
        BY <1>0, <1>11 DEF Asks, LockStepInv
  <2>2. pc # "handle"
        BY <1>0, <1>11 DEF Asks, LockStepInv
  <2> QED  BY <1>0, <1>11, <2>1, <2>2, EmptySeq DEF Asks, LockStepInv, Arriving, sendVars
<1>12. CASE TakesAnswer
  <2>1. answer \in Answers /\ Head(records) = Line(answer) /\ asked # NoLine
        /\ pc # "handle" /\ ~Arriving
        BY <1>0, <1>12 DEF TakesAnswer, LockStepInv
  <2>2. told' = Text[answer] /\ Text[answer] # <<>>
        BY <1>12, <2>1, TakenLine, TextNotEmpty DEF TakesAnswer
  <2>3. port = "command" => Tail(records) = <<>>
    <3>1. records \in Seq(Seq(Nat)) /\ records # <<>> /\ Len(records) \in Nat
          BY <1>12, LenProperties DEF TypeOK, TakesAnswer
    <3>2. Tail(records) \in Seq(Seq(Nat)) /\ Len(Tail(records)) = Len(records) - 1
          BY <3>1, HeadTailProperties
    <3>3. port = "command" => Len(records) <= 1
          BY <1>0 DEF LockStepInv
    <3>4. Len(Tail(records)) > 0 \/ Tail(records) = <<>>
          BY <3>2, EmptySeq
    <3> QED  BY <3>1, <3>2, <3>3, <3>4
  <2>4. ~Arriving'
        BY <1>12, <2>1 DEF TakesAnswer, Arriving
  <2>5. port = "command" => Len(records') <= 1 /\ records' = <<>>
    <3>1. port = "command" => records' = <<>>
          BY <1>12, <2>3 DEF TakesAnswer
    <3>2. Len(<<>>) <= 1
          BY EmptySeq
    <3> QED  BY <3>1, <3>2
  <2> QED  BY <1>0, <1>12, <2>1, <2>2, <2>4, <2>5 DEF TakesAnswer, LockStepInv
<1>13. CASE TakesImageBytes
  <2>1. asked # NoLine /\ pc # "handle" /\ ~Arriving
        BY <1>0, <1>13 DEF TakesImageBytes, LockStepInv
  <2>2. told # <<>>
        BY <1>13, TextNotEmpty DEF TakesImageBytes
  <2>3. ~Arriving'
        BY <1>13, <2>1 DEF TakesImageBytes, Arriving
  <2> QED  BY <1>0, <1>13, <2>1, <2>2, <2>3 DEF TakesImageBytes, LockStepInv
<1>14. CASE HangsUp
  <2>1. Arriving' => Arriving
        BY <1>14 DEF HangsUp, Arriving
  <2> QED  BY <1>0, <1>14, <2>1, EmptySeq DEF HangsUp, LockStepInv
<1>15. CASE NextClient
  <2>1. ~Arriving'
        BY <1>15 DEF NextClient, Arriving
  <2> QED  BY <1>0, <1>15, <2>1, EmptySeq DEF NextClient, LockStepInv
<1>16. CASE UNCHANGED vars
      BY <1>0, <1>16 DEF LockStepInv, Arriving, vars, clientVars, sendVars
<1> QED
    BY <1>1, <1>2, <1>3, <1>5, <1>6, <1>7, <1>9, <1>10, <1>11, <1>12, <1>13,
       <1>14, <1>15, <1>16 DEF Next

----------------------------------------------------------------------------
(* Every step keeps the end of a PICTURE out of cmd, unless this client    *)
(* sent it.                                                                *)

LEMMA PictureStep ==
    ASSUME TypeOK, IInv, [Next]_vars
    PROVE  PictureInv'
<1> USE Places
<1> DEFINE E == Text["PICTURE"][LastOf]
<1>0. CopyInv /\ LockStepInv /\ PictureInv /\ OnlySentLinesActedOn
      /\ E \in Letters /\ E # Zero
      BY BytesDiffer DEF IInv, PictureInv
<1> HIDE DEF E
<1>1. ASSUME NEW k \in 1 .. BUFFER_SIZE, Reads(k)
      PROVE  PictureInv'
  <2> DEFINE n == Len(Text[asked])
             end == taken + k = n + 1
  <2>1. asked \in ClientLines /\ pc = "read" /\ asked # NoLine
        /\ taken + k <= Len(Line(asked)) /\ taken' = taken + k
        /\ asked' = asked /\ port' = port /\ answer' = answer
        BY <1>1 DEF TypeOK, Reads, clientVars, sendVars
  <2>2. n \in Nat /\ n + 1 <= CMD_LEN /\ Len(Line(asked)) = n + 1
        BY <2>1, TextFits, LineOf
  <2>3. taken \in Nat /\ k \in Nat /\ k >= 1 /\ taken + k <= n + 1
        BY <2>1, <2>2 DEF TypeOK
  <2>4. /\ Copied(k) \in [Array -> {Zero, NL} \cup Letters]
        /\ \A i \in 1 .. n : i <= taken + k => Copied(k)[i] = Text[asked][i]
        /\ \A i \in Array : taken + k < i => Copied(k)[i] = cmd[i]
        BY <1>0, <2>1, PieceCopied
  <2>5. cmd' = IF end THEN [Copied(k) EXCEPT ![n + 1] = Zero] ELSE Copied(k)
        BY <1>0, <1>1, <2>1, <2>2, LineStripped DEF Reads
  <2>6. LastOf \in Array /\ LastOf + 1 \in Array
        BY DEF Array
  <2>7. asked # "PICTURE" => (n >= LastOf => Text[asked][LastOf] # E)
        BY <2>1, PlaceAssumption DEF E
  <2> HIDE DEF n
  <2>8. ASSUME port = "image", EndsAsPicture'
        PROVE  asked = "PICTURE" /\ taken + k >= LastOf
    <3>1. cmd'[LastOf] = E /\ cmd'[LastOf + 1] = Zero
          BY <2>8 DEF EndsAsPicture, E
    <3>2. CASE taken + k < LastOf
      <4>1. cmd'[LastOf] = cmd[LastOf] /\ cmd'[LastOf + 1] = cmd[LastOf + 1]
            BY <2>2, <2>3, <2>4, <2>5, <2>6, <3>2
      <4>2. EndsAsPicture
            BY <3>1, <4>1 DEF EndsAsPicture, E
      <4>3. taken >= LastOf
            BY <1>0, <2>1, <2>8, <4>2 DEF PictureInv
      <4> QED  BY <2>3, <3>2, <4>3
    <3>3. CASE taken + k >= LastOf /\ n < LastOf
      <4>1. LastOf = n + 1 /\ end
            BY <2>2, <2>3, <3>3
      <4>2. cmd'[LastOf] = Zero
            BY <2>4, <2>5, <2>6, <4>1
      <4> QED  BY <1>0, <3>1, <4>2
    <3>4. CASE taken + k >= LastOf /\ n >= LastOf
      <4>1. Copied(k)[LastOf] = Text[asked][LastOf]
            BY <2>2, <2>4, <3>4
      <4>2. cmd'[LastOf] = Text[asked][LastOf]
            BY <2>2, <2>4, <2>5, <2>6, <3>4, <4>1
      <4> QED  BY <2>7, <3>1, <3>4, <4>2
    <3> QED  BY <2>2, <2>3, <3>2, <3>3, <3>4
  <2>9. pc' \in {"read", "handle"}
        BY <1>1 DEF Reads
  <2>10. OnlySentLinesActedOn'
    <3>1. port = "image" /\ answer = "PICTURE_OK" =>
              asked = "PICTURE" /\ taken >= LastOf
          BY <1>0 DEF OnlySentLinesActedOn
    <3>2. taken >= LastOf => taken' >= LastOf
          BY <2>1, <2>3
    <3> QED  BY <2>1, <2>9, <3>1, <3>2 DEF OnlySentLinesActedOn
  <2> QED  BY <2>1, <2>8, <2>9, <2>10 DEF PictureInv
<1>2. CASE ReadFails
      BY <1>0, <1>2 DEF ReadFails, PictureInv, OnlySentLinesActedOn,
         EndsAsPicture, clientVars, sendVars
<1>3. CASE HandleCommand
      BY <1>3 DEF HandleCommand, PictureInv, OnlySentLinesActedOn, clientVars
<1>4. CASE RejectsLine
  <2>1. ~EndsAsPicture
    <3>1. SUFFICES ASSUME EndsAsPicture
                   PROVE  FALSE
          OBVIOUS
    <3>2. asked = "PICTURE" /\ taken >= LastOf
          BY <1>0, <1>4, <3>1 DEF RejectsLine, PictureInv
    <3>3. \A i \in 1 .. LastOf : i <= taken => cmd[i] = Text["PICTURE"][i]
          BY <1>0, <1>4, <3>2 DEF RejectsLine, CopyInv, Arriving, LastOf
    <3>4. \A i \in 1 .. LastOf : cmd[i] = Text["PICTURE"][i]
      <4>1. taken \in Nat
            BY DEF TypeOK
      <4> QED  BY <3>2, <3>3, <4>1
    <3>5. Same(cmd, "PICTURE")
          BY <3>1, <3>4 DEF Same, EndsAsPicture, LastOf
    <3> QED  BY <1>4, <3>5 DEF RejectsLine
  <2>2. answer' = "PICTURE_ERR"
        BY <1>4, AnswerSent DEF RejectsLine
  <2> QED  BY <1>4, <2>1, <2>2 DEF RejectsLine, PictureInv,
           OnlySentLinesActedOn, EndsAsPicture, clientVars
<1>5. CASE RejectsPicture
  <2>1. answer' = "PICTURE_ERR"
        BY <1>5, AnswerSent DEF RejectsPicture
  <2> QED  BY <1>5, <2>1 DEF RejectsPicture, PictureInv,
           OnlySentLinesActedOn, EndsAsPicture, clientVars
<1>6. CASE AcceptsPicture
  <2>1. EndsAsPicture
        BY <1>6 DEF AcceptsPicture, Same, EndsAsPicture, LastOf
  <2>2. asked = "PICTURE" /\ taken >= LastOf
        BY <1>0, <1>6, <2>1 DEF AcceptsPicture, PictureInv
  <2> QED  BY <1>6, <2>2 DEF AcceptsPicture, PictureInv,
           OnlySentLinesActedOn, clientVars
<1>7. CASE SendsChunk
      BY <1>0, <1>7 DEF SendsChunk, PictureInv, OnlySentLinesActedOn,
         EndsAsPicture, clientVars
<1>8. CASE SendsRest
  <2>1. ~EndsAsPicture'
    <3>1. cmd'[LastOf] = Zero
          BY <1>8, ZerosAre DEF SendsRest
    <3> QED  BY <1>0, <3>1 DEF EndsAsPicture, E
  <2> QED  BY <1>0, <1>8, <2>1 DEF SendsRest, PictureInv,
           OnlySentLinesActedOn, clientVars
<1>9. ASSUME NEW m \in ClientLines, Asks(m)
      PROVE  PictureInv'
  <2>1. port = "image" => asked = NoLine /\ pc = "read"
        BY <1>0, <1>9 DEF Asks, LockStepInv
  <2>2. port = "image" => ~EndsAsPicture /\ answer # "PICTURE_OK"
        BY <1>0, <2>1 DEF PictureInv, OnlySentLinesActedOn
  <2> QED  BY <1>9, <2>1, <2>2 DEF Asks, PictureInv, OnlySentLinesActedOn,
           EndsAsPicture, sendVars
<1>10. CASE TakesAnswer
      BY <1>0, <1>10 DEF TakesAnswer, PictureInv, OnlySentLinesActedOn,
         EndsAsPicture
<1>11. CASE TakesImageBytes
      BY <1>0, <1>11 DEF TakesImageBytes, PictureInv, OnlySentLinesActedOn,
         EndsAsPicture
<1>12. CASE HangsUp
      BY <1>0, <1>12 DEF HangsUp, PictureInv, OnlySentLinesActedOn,
         EndsAsPicture
<1>13. CASE NextClient
  <2>1. answer' # "PICTURE_OK" /\ pc' = "read" /\ ~EndsAsPicture'
        BY <1>0, <1>13 DEF NextClient, PictureInv, EndsAsPicture
  <2> QED  BY <2>1 DEF PictureInv, OnlySentLinesActedOn
<1>14. CASE UNCHANGED vars
      BY <1>0, <1>14 DEF PictureInv, OnlySentLinesActedOn, EndsAsPicture,
         vars, clientVars, sendVars
<1> QED
    BY <1>1, <1>2, <1>3, <1>4, <1>5, <1>6, <1>7, <1>8, <1>9, <1>10, <1>11,
       <1>12, <1>13, <1>14 DEF Next

----------------------------------------------------------------------------
(* Every step keeps the picture whole.                                     *)

(* Nothing was read, and only the answer is on its way.                    *)
LEMMA LaidAtFirst ==
    ASSUME NEW recs \in Seq(Seq(Nat)), Len(recs) = 1, NEW n
    PROVE  Laid(<<>>, recs, 1, n, 0)
<1>1. Len(<<>>) = 0 /\ 1 - 1 = 0 /\ 0 * BUFFER_SIZE = 0 /\ BUFFER_SIZE \in Nat
      BY EmptySeq, SizesAssumption
<1>2. 1 .. Len(<<>>) = {} /\ 1 .. Len(recs) - 1 = {}
      BY <1>1
<1> QED  BY <1>1, <1>2 DEF Laid

(* The next chunk is put behind the others.                                *)
LEMMA LaidNext ==
    ASSUME NEW img \in Seq(Nat), NEW recs \in Seq(Seq(Nat)), NEW d \in {0, 1},
           NEW n \in Nat, NEW total \in Nat, Laid(img, recs, d, n, total),
           NEW chunk \in Seq(Nat), Len(chunk) = BUFFER_SIZE,
           \A i \in 1 .. BUFFER_SIZE : chunk[i] = FileByte(n, total + i)
    PROVE  Laid(img, Append(recs, chunk), d, n, total + BUFFER_SIZE)
<1> DEFINE new == Append(recs, chunk)
           k == Len(recs) - d
<1>1. /\ BUFFER_SIZE \in Nat /\ Len(img) \in Nat /\ Len(recs) \in Nat
      /\ Len(recs) >= d /\ total = Len(img) + k * BUFFER_SIZE
      BY SizesAssumption, LenProperties DEF Laid
<1>2. /\ Len(new) = Len(recs) + 1 /\ new[Len(recs) + 1] = chunk
      /\ \A i \in 1 .. Len(recs) : new[i] = recs[i]
      BY AppendProperties
<1>3. k \in Nat /\ Len(recs) = d + k
      BY <1>1
<1> HIDE DEF new, k
<1>4. Len(new) >= d /\ Len(new) - d = k + 1
      BY <1>1, <1>2, <1>3
<1>5. total + BUFFER_SIZE = Len(img) + (k + 1) * BUFFER_SIZE
      BY <1>1, <1>3
<1>6. ASSUME NEW j \in 1 .. k + 1
      PROVE  /\ Len(new[d + j]) = BUFFER_SIZE
             /\ \A i \in 1 .. BUFFER_SIZE :
                    new[d + j][i] = FileByte(n, Len(img) + (j - 1) * BUFFER_SIZE + i)
  <2>1. CASE j = k + 1
    <3>1. new[d + j] = chunk
          BY <1>2, <1>3, <2>1
    <3>2. (j - 1) * BUFFER_SIZE = k * BUFFER_SIZE
          BY <1>3, <2>1
    <3> QED  BY <1>1, <3>1, <3>2
  <2>2. CASE j # k + 1
    <3>1. j \in 1 .. k /\ d + j \in 1 .. Len(recs)
          BY <1>3, <2>2
    <3>2. new[d + j] = recs[d + j]
          BY <1>2, <3>1
    <3> QED  BY <3>1, <3>2 DEF Laid, k
  <2> QED  BY <2>1, <2>2
<1>7. \A i \in 1 .. Len(img) : img[i] = FileByte(n, i)
      BY DEF Laid
<1> QED  BY <1>4, <1>5, <1>6, <1>7 DEF Laid, new

(* The client reads the answer: the first record is a chunk.               *)
LEMMA LaidAnswered ==
    ASSUME NEW img \in Seq(Nat), NEW recs \in Seq(Seq(Nat)), NEW n, NEW total,
           Laid(img, recs, 1, n, total)
    PROVE  Laid(img, Tail(recs), 0, n, total)
<1>1. Len(recs) \in Nat /\ Len(recs) >= 1 /\ recs # <<>>
      BY LenProperties, EmptySeq DEF Laid
<1>2. /\ Len(Tail(recs)) = Len(recs) - 1
      /\ \A j \in 1 .. Len(Tail(recs)) : Tail(recs)[j] = recs[j + 1]
      BY <1>1, HeadTailProperties
<1> DEFINE rest == Tail(recs)
<1> HIDE DEF rest
<1>3. Len(rest) >= 0 /\ Len(rest) - 0 = Len(recs) - 1
      BY <1>1, <1>2 DEF rest
<1>4. \A j \in 1 .. Len(rest) - 0 : rest[0 + j] = recs[1 + j]
      BY <1>1, <1>2, <1>3 DEF rest
<1> QED  BY <1>3, <1>4 DEF Laid, rest

(* The client takes a chunk.                                               *)
LEMMA LaidTaken ==
    ASSUME NEW img \in Seq(Nat), NEW recs \in Seq(Seq(Nat)), recs # <<>>,
           NEW n, NEW total, Laid(img, recs, 0, n, total)
    PROVE  Laid(img \o Head(recs), Tail(recs), 0, n, total)
<1> DEFINE more == img \o Head(recs)
           rest == Tail(recs)
           L == Len(img)
           k == Len(recs)
<1>1. /\ BUFFER_SIZE \in Nat /\ L \in Nat /\ k \in Nat /\ k >= 1
      /\ total = L + (k - 0) * BUFFER_SIZE
      BY SizesAssumption, LenProperties, EmptySeq DEF Laid
<1>2. /\ Head(recs) = recs[1] /\ Head(recs) \in Seq(Nat) /\ Len(rest) = k - 1
      /\ \A j \in 1 .. Len(rest) : rest[j] = recs[j + 1]
      BY HeadTailProperties
<1>3. /\ \A j \in 1 .. k :
            /\ Len(recs[j]) = BUFFER_SIZE
            /\ \A i \in 1 .. BUFFER_SIZE :
                   recs[j][i] = FileByte(n, L + (j - 1) * BUFFER_SIZE + i)
      /\ \A i \in 1 .. L : img[i] = FileByte(n, i)
  <2>1. k - 0 = k /\ \A j \in 1 .. k : 0 + j = j
        BY <1>1
  <2> QED  BY <2>1 DEF Laid
<1>4. /\ Len(more) = L + Len(Head(recs))
      /\ \A i \in 1 .. Len(more) :
             more[i] = IF i <= L THEN img[i] ELSE Head(recs)[i - L]
      BY <1>2, ConcatProperties
<1> HIDE DEF more, rest, L, k
<1>5. Len(Head(recs)) = BUFFER_SIZE
      BY <1>1, <1>2, <1>3
<1>6. Len(more) = L + BUFFER_SIZE
      BY <1>4, <1>5
<1>7. ASSUME NEW i \in 1 .. Len(more)
      PROVE  more[i] = FileByte(n, i)
  <2>1. CASE i <= L
    <3>1. i \in 1 .. L /\ more[i] = img[i]
          BY <1>1, <1>4, <1>6, <2>1
    <3> QED  BY <1>3, <3>1
  <2>2. CASE ~(i <= L)
    <3>1. i - L \in 1 .. BUFFER_SIZE /\ more[i] = recs[1][i - L]
          BY <1>1, <1>2, <1>4, <1>6, <2>2
    <3>2. L + (1 - 1) * BUFFER_SIZE + (i - L) = i
          BY <1>1
    <3>3. recs[1][i - L] = FileByte(n, L + (1 - 1) * BUFFER_SIZE + (i - L))
      <4>1. 1 \in 1 .. k
            BY <1>1
      <4> QED  BY <1>3, <3>1, <4>1
    <3> QED  BY <3>1, <3>2, <3>3
  <2> QED  BY <2>1, <2>2
<1>8. ASSUME NEW j \in 1 .. Len(rest) - 0
      PROVE  /\ Len(rest[0 + j]) = BUFFER_SIZE
             /\ \A i \in 1 .. BUFFER_SIZE :
                    rest[0 + j][i] =
                        FileByte(n, Len(more) + (j - 1) * BUFFER_SIZE + i)
  <2>1. 0 + j = j /\ j \in 1 .. Len(rest) /\ j + 1 \in 1 .. k
        BY <1>1, <1>2
  <2>2. rest[0 + j] = recs[j + 1]
        BY <1>2, <2>1
  <2>3. Len(more) + (j - 1) * BUFFER_SIZE = L + ((j + 1) - 1) * BUFFER_SIZE
        BY <1>1, <1>6
  <2> QED  BY <1>3, <2>1, <2>2, <2>3
<1>9. Len(rest) >= 0 /\ total = Len(more) + (Len(rest) - 0) * BUFFER_SIZE
      BY <1>1, <1>2, <1>6
<1> QED  BY <1>7, <1>8, <1>9 DEF Laid, more, rest

(* A chunk of the file, as fread makes it.                                 *)
LEMMA ChunkOfFile ==
    ASSUME TypeOK, NEW n \in Nat, n <= size - read,
           n = BUFFER_SIZE \/ n = size - read
    PROVE  /\ fread(n) \in Seq(Nat) /\ Len(fread(n)) = BUFFER_SIZE
           /\ \A i \in 1 .. BUFFER_SIZE : fread(n)[i] = FileByte(size, read + i)
<1>1. size \in Nat /\ read \in Nat /\ BUFFER_SIZE \in Nat
      BY PlaceInPicture, SizesAssumption
<1>2. fread(n) \in Seq(Nat) /\ Len(fread(n)) = BUFFER_SIZE
      BY <1>1, ChunkIsBytes DEF fread
<1>3. \A i \in 1 .. BUFFER_SIZE : i <= n <=> read + i <= size
      BY <1>1
<1>4. \A i \in 1 .. BUFFER_SIZE : fread(n)[i] = FileByte(size, read + i)
      BY <1>3 DEF fread, FileByte
<1> QED  BY <1>2, <1>4

LEMMA ImageStep ==
    ASSUME TypeOK, IInv, [Next]_vars
    PROVE  ImageInv'
<1> USE Places
<1>0. CopyInv /\ LockStepInv /\ ImageInv
      BY DEF IInv
<1> DEFINE Open == port = "image" /\ peer = "open" /\ answer = "PICTURE_OK"
(* Before the answer the client has nothing to take.                       *)
<1>a. port = "image" /\ pc \in {"read", "handle"} => told = <<>> /\ image = <<>>
      BY <1>0 DEF CopyInv, LockStepInv, Arriving, ImageInv
<1>b. /\ image \in Seq(Nat) /\ records \in Seq(Seq(Nat))
      /\ size \in Nat /\ read \in Nat /\ BUFFER_SIZE \in Nat /\ Ahead \in {0, 1}
      BY PlaceInPicture, SizesAssumption DEF TypeOK, Ahead
<1>1. ASSUME NEW k \in 1 .. BUFFER_SIZE, Reads(k)
      PROVE  ImageInv'
  <2>1. pc = "read" /\ pc' \in {"read", "handle"}
        BY <1>1 DEF Reads
  <2>2. pc' # "shut" /\ (port = "image" => image = <<>>)
        BY <1>a, <2>1
  <2> QED  BY <1>1, <2>1, <2>2 DEF Reads, ImageInv, clientVars, sendVars
<1>2. CASE ReadFails
      BY <1>a, <1>2 DEF ReadFails, ImageInv, clientVars, sendVars
<1>3. CASE HandleCommand
      BY <1>3 DEF HandleCommand, ImageInv, clientVars
<1>4. CASE RejectsLine
  <2>1. answer' # "PICTURE_OK" /\ pc' = "shut" /\ port' = "image"
        BY <1>4 DEF RejectsLine, SendsAnswer, clientVars
  <2> QED  BY <2>1 DEF ImageInv
<1>5. CASE RejectsPicture
  <2>1. pc' = "gone"
        BY <1>5 DEF RejectsPicture
  <2> QED  BY <2>1 DEF ImageInv
<1>6. CASE AcceptsPicture
  <2> SUFFICES ASSUME peer = "open"
               PROVE  Laid(image, records, Ahead, size, read)'
      BY <1>6 DEF AcceptsPicture, ImageInv, clientVars
  <2>1. records = <<>> /\ told = <<>> /\ image = <<>>
        BY <1>0, <1>a, <1>6 DEF AcceptsPicture, LockStepInv
  <2>2. records' \in Seq(Seq(Nat)) /\ records' # <<>> /\ Len(records') \in 0 .. 1
        BY <1>6, <2>1, AnswerTyped, FirstRecord DEF AcceptsPicture
  <2>3. Len(records') = 1
        BY <2>2, EmptySeq
  <2>4. read' = 0 /\ Ahead' = 1 /\ image' = <<>>
        BY <1>6, <2>1 DEF AcceptsPicture, Ahead, clientVars
  <2> QED  BY <2>2, <2>3, <2>4, LaidAtFirst
<1>7. CASE SendsChunk
  <2>1. /\ pc = "picture" /\ pc' = "picture" /\ BUFFER_SIZE <= size - read
        /\ image' = image /\ size' = size /\ Ahead' = Ahead
        /\ read' = read + BUFFER_SIZE
        BY <1>7, <1>b DEF SendsChunk, clientVars, Ahead
  <2> SUFFICES ASSUME Open
               PROVE  Laid(image', records', Ahead', size', read')
      BY <1>7, <2>1 DEF ImageInv, SendsChunk, clientVars
  <2>2. records' = Append(records, fread(BUFFER_SIZE))
        BY <1>7 DEF SendsChunk, send_msg
  <2>3. Laid(image, records, Ahead, size, read)
        BY <1>0, <2>1 DEF ImageInv
  <2>4. Laid(image, records', Ahead, size, read + BUFFER_SIZE)
        BY <1>b, <2>1, <2>2, <2>3, ChunkOfFile, LaidNext
  <2> QED  BY <2>1, <2>4
<1>8. CASE SendsRest
  <2>1. /\ pc = "picture" /\ pc' = "shut" /\ size - read < BUFFER_SIZE
        /\ image' = image /\ size' = size /\ Ahead' = Ahead /\ read <= size
        /\ port = "image"
        BY <1>0, <1>8, PlaceInPicture
           DEF SendsRest, LockStepInv, TypeOK, clientVars, Ahead
  <2> SUFFICES ASSUME Open
               PROVE  \E total \in size .. size + BUFFER_SIZE - 1 :
                          Laid(image, records', Ahead, size, total)
      BY <1>8, <2>1 DEF ImageInv, SendsRest, clientVars
  <2>2. Laid(image, records, Ahead, size, read)
        BY <1>0, <2>1 DEF ImageInv
  <2>3. CASE size - read > 0
    <3>1. /\ records' = Append(records, fread(size - read))
          /\ size - read \in Nat /\ size - read <= size - read
          BY <1>8, <1>b, <2>3 DEF SendsRest, send_msg
    <3>2. Laid(image, records', Ahead, size, read + BUFFER_SIZE)
          BY <1>b, <2>2, <3>1, ChunkOfFile, LaidNext
    <3>3. read + BUFFER_SIZE \in size .. size + BUFFER_SIZE - 1
          BY <1>b, <2>1, <2>3
    <3> QED  BY <3>2, <3>3
  <2>4. CASE ~(size - read > 0)
    <3>1. records' = records
          BY <1>8, <2>4 DEF SendsRest
    <3>2. read \in size .. size + BUFFER_SIZE - 1
          BY <1>b, <2>1, <2>4
    <3> QED  BY <2>2, <3>1, <3>2
  <2> QED  BY <2>3, <2>4
<1>9. ASSUME NEW m \in ClientLines, Asks(m)
      PROVE  ImageInv'
  <2>1. port = "image" => pc = "read"
        BY <1>0, <1>9 DEF Asks, LockStepInv
  <2>2. pc = "shut" => port = "image"
        BY <1>0 DEF ImageInv
  <2> QED  BY <1>a, <1>9, <2>1, <2>2 DEF Asks, ImageInv, sendVars
<1>10. CASE TakesAnswer
  <2>1. /\ told = <<>> /\ records' = Tail(records) /\ told' # <<>>
    <3>1. answer \in Answers /\ Head(records) = Line(answer)
          BY <1>0, <1>10 DEF TakesAnswer, LockStepInv
    <3> QED  BY <1>10, <3>1, TakenLine, TextNotEmpty DEF TakesAnswer
  <2>2. Ahead = 1 /\ Ahead' = 0
        BY <2>1 DEF Ahead
  <2>3. \A total : Laid(image, records, Ahead, size, total)
                       => Laid(image, records', Ahead', size, total)
        BY <1>b, <2>1, <2>2, LaidAnswered
  <2> QED  BY <1>0, <1>10, <2>3 DEF TakesAnswer, ImageInv
<1>11. CASE TakesImageBytes
  <2>1. /\ told # <<>> /\ records # <<>> /\ records' = Tail(records)
        /\ image' = image \o Head(records)
        BY <1>11, TextNotEmpty DEF TakesImageBytes
  <2>2. Ahead = 0 /\ Ahead' = 0 /\ ~(port = "image" /\ pc \in {"read", "handle"})
        BY <1>a, <1>11, <2>1 DEF Ahead, TakesImageBytes
  <2>3. \A total : Laid(image, records, Ahead, size, total)
                       => Laid(image', records', Ahead', size, total)
        BY <1>b, <2>1, <2>2, LaidTaken
  <2> QED  BY <1>0, <1>11, <2>2, <2>3 DEF TakesImageBytes, ImageInv
<1>12. CASE HangsUp
      BY <1>0, <1>12 DEF HangsUp, ImageInv
<1>13. CASE NextClient
      BY <1>13 DEF NextClient, ImageInv
<1>14. CASE UNCHANGED vars
      BY <1>0, <1>14 DEF ImageInv, Ahead, vars, clientVars, sendVars
<1> QED
    BY <1>1, <1>2, <1>3, <1>4, <1>5, <1>6, <1>7, <1>8, <1>9, <1>10, <1>11,
       <1>12, <1>13, <1>14 DEF Next

----------------------------------------------------------------------------
(* The theorems.                                                           *)

(* What arrived is in its place, the lock-step is kept, the end of a       *)
(* PICTURE is in cmd only when this client sent it, and the chunks are in  *)
(* their places: the invariant of the copy loop, of both tasks and of the  *)
(* client, for every buffer.                                               *)
THEOREM Invariance == Spec => [](TypeOK /\ IInv)
<1>1. Init => TypeOK /\ IInv
      BY Begins
<1>2. (TypeOK /\ IInv) /\ [Next]_vars => (TypeOK /\ IInv)'
      BY KeepsType, CopyStep, LockStep, PictureStep, ImageStep DEF IInv
<1> QED  BY <1>1, <1>2, PTL DEF Spec

(* Every buffer and every record holds bytes, and no index leaves cmd: the *)
(* types of the connection's state.                                        *)
THEOREM TypeCorrect == Spec => []TypeOK
BY Invariance, PTL

(* A line read to its end is in cmd as it was sent, however read_msg got   *)
(* it and whatever the lines before it left there.                         *)
THEOREM LinesIntact == Spec => []LineReadIntact
<1>1. TypeOK /\ IInv => LineReadIntact
  <2> SUFFICES ASSUME TypeOK, IInv, pc = "handle", asked # NoLine,
                      taken = Len(Text[asked]) + 1
               PROVE  Same(cmd, asked)
      BY DEF LineReadIntact
  <2>1. Len(Text[asked]) \in Nat
    <3>1. asked \in ClientLines
          BY DEF TypeOK
    <3> QED  BY <3>1, TextFits
  <2>2. \A i \in 1 .. Len(Text[asked]) : i <= taken => cmd[i] = Text[asked][i]
        BY DEF IInv, CopyInv, Arriving
  <2>3. cmd[Len(Text[asked]) + 1] = Zero
        BY DEF IInv, CopyInv
  <2> QED  BY <2>1, <2>2, <2>3 DEF Same
<1> QED  BY <1>1, Invariance, PTL

(* The client reads the answer that put_response put, with nothing before  *)
(* or behind it.                                                           *)
THEOREM AnswersIntact == Spec => []AnswerReadIntact
<1>1. IInv => AnswerReadIntact
      BY DEF IInv, LockStepInv, AnswerReadIntact
<1> QED  BY <1>1, Invariance, PTL

(* img_task takes a picture only for a client that sent all the bytes of   *)
(* PICTURE on this connection.                                             *)
THEOREM RequestsSent == Spec => []OnlySentLinesActedOn
<1>1. IInv => OnlySentLinesActedOn
      BY DEF IInv, PictureInv
<1> QED  BY <1>1, Invariance, PTL

(* A client that stays gets the file of any size whole and in order, none  *)
(* of it taken for the answer, and fewer zeros behind it than a chunk has. *)
THEOREM PicturesWhole == Spec => []PictureArrivesWhole
<1>1. TypeOK /\ IInv => PictureArrivesWhole
  <2> SUFFICES ASSUME TypeOK, IInv, pc = "shut", peer = "open",
                      answer = "PICTURE_OK", told # <<>>, records = <<>>
               PROVE  /\ Len(image) >= size /\ Len(image) < size + BUFFER_SIZE
                      /\ \A i \in 1 .. Len(image) : image[i] = FileByte(size, i)
      BY DEF PictureArrivesWhole, FileByte
  <2>1. port = "image"
        BY DEF IInv, ImageInv
  <2>2. PICK total \in size .. size + BUFFER_SIZE - 1 :
            Laid(image, records, 0, size, total)
        BY <2>1 DEF IInv, ImageInv, Ahead
  <2>3. size \in Nat /\ BUFFER_SIZE \in Nat /\ Len(image) \in Nat /\ Len(records) = 0
        BY PlaceInPicture, SizesAssumption, LenProperties, EmptySeq DEF TypeOK
  <2>4. total = Len(image) + (0 - 0) * BUFFER_SIZE
        BY <2>2, <2>3 DEF Laid
  <2>5. Len(image) = total
        BY <2>3, <2>4
  <2> QED  BY <2>2, <2>3, <2>5 DEF Laid
<1> QED  BY <1>1, Invariance, PTL
=============================================================================
