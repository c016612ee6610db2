------------------------- MODULE FramingProperties -------------------------
(***************************************************************************)
(* What a line, an answer and a picture keep on their way.                 *)
(***************************************************************************)
EXTENDS Framing

(* A line that was read to its end is in cmd as it was sent, with nothing  *)
(* of the lines before it: however it was split, whatever a rejected line  *)
(* or a client that hung up left in the buffer, and although read_msg cuts *)
(* a line that is too long at the wrong place.                             *)
LineReadIntact ==
    pc = "handle" /\ asked # NoLine /\ taken = Len(Text[asked]) + 1 =>
        Same(cmd, asked)

(* The client reads the answer that was put: none is too long for response *)
(* once its "\n" is in the place of its last zero, and no longer answer    *)
(* shows behind a shorter one.                                             *)
AnswerReadIntact == told # <<>> => told = Text[answer]

(* img_task ignores the result of read_msg, and does not clear cmd after a *)
(* line it rejects.  Still, it takes a picture only if this client itself  *)
(* has sent all the bytes of PICTURE, on this connection.                  *)
OnlySentLinesActedOn ==
    port = "image" /\ (pc = "picture" \/ answer = "PICTURE_OK") =>
        asked = "PICTURE" /\ taken >= LastOf

(* A client that stays gets the whole file: its bytes in order, none taken *)
(* for a part of the answer, and after them fewer zeros than a chunk has.  *)
PictureArrivesWhole ==
    pc = "shut" /\ peer = "open" /\ answer = "PICTURE_OK"
        /\ told # <<>> /\ records = <<>> =>
        /\ Len(image) >= size /\ Len(image) < size + BUFFER_SIZE
        /\ \A i \in 1 .. Len(image) :
               image[i] = IF i <= size THEN PictureByte(i) ELSE Zero

----------------------------------------------------------------------------
(* Why: the inductive invariant.                                           *)

(* The line is being copied, or is there.                                  *)
Arriving ==
    asked # NoLine /\ (pc = "handle" \/ (pc = "read" /\ taken <= Len(Text[asked])))

(* What arrived is in cmd, in its place, and a whole line is ended by a    *)
(* zero.                                                                   *)
CopyInv ==
    /\ asked = NoLine => taken = 0
    /\ asked # NoLine => taken <= Len(Text[asked]) + 1
    /\ Arriving => \A i \in 1 .. Len(Text[asked]) :
                       i <= taken => cmd[i] = Text[asked][i]
    /\ pc = "handle" /\ asked # NoLine /\ taken = Len(Text[asked]) + 1 =>
           cmd[taken] = Zero
    /\ port = "command" /\ pc = "handle" =>
           asked # NoLine /\ taken = Len(Text[asked]) + 1
    /\ port = "image" /\ pc = "read" /\ asked # NoLine =>
           taken <= Len(Text[asked])
    /\ pc \in {"read", "handle", "shut"} => cmd[CMD_LEN] = Zero

(* The lock-step: nothing is on its way to a client whose line is, and an  *)
(* answer is ahead of all that follows it.                                 *)
LockStepInv ==
    /\ pc = "handle" \/ Arriving => told = <<>> /\ records = <<>>
    /\ asked = NoLine =>
           told = <<>> /\ records = <<>> /\ (peer = "open" => pc = "read")
    /\ told # <<>> => answer \in Answers /\ told = Text[answer]
    /\ told = <<>> /\ records # <<>> =>
           answer \in Answers /\ Head(records) = Line(answer)
    /\ port = "command" =>
           Len(records) <= 1 /\ (told # <<>> => records = <<>>) /\ pc # "picture"
    /\ pc = "picture" /\ peer = "open" => told # <<>> \/ records # <<>>
    /\ peer = "closed" => records = <<>>

(* The end of a PICTURE is in cmd.                                         *)
EndsAsPicture ==
    cmd[LastOf] = Text["PICTURE"][LastOf] /\ cmd[LastOf + 1] = Zero

(* It is there only when this client has sent it.                          *)
PictureInv ==
    /\ port = "image" /\ pc \in {"read", "handle"} /\ EndsAsPicture =>
           asked = "PICTURE" /\ taken >= LastOf
    /\ port = "image" /\ pc = "shut" => ~EndsAsPicture
    /\ OnlySentLinesActedOn

(* The file, and the zeros of the last chunk.                              *)
FileByte(n, i) == IF i <= n THEN PictureByte(i) ELSE Zero

(* What the client has of the picture and the chunks behind the first d    *)
(* records are the first total bytes of a file of n and its zeros: each    *)
(* chunk is whole, and in its place.                                       *)
Laid(img, recs, d, n, total) ==
    /\ Len(recs) >= d
    /\ total = Len(img) + (Len(recs) - d) * BUFFER_SIZE
    /\ \A i \in 1 .. Len(img) : img[i] = FileByte(n, i)
    /\ \A j \in 1 .. Len(recs) - d :
          /\ Len(recs[d + j]) = BUFFER_SIZE
          /\ \A i \in 1 .. BUFFER_SIZE :
                 recs[d + j][i] = FileByte(n, Len(img) + (j - 1) * BUFFER_SIZE + i)

(* Until it is read, the answer is ahead of the picture.                   *)
Ahead == IF told = <<>> THEN 1 ELSE 0

(* What was read of the file is with the client or on its way; when the    *)
(* connection is shut down that is the file.                               *)
ImageInv ==
    /\ pc = "shut" => port = "image"
    /\ port = "image" /\ pc \in {"read", "handle"} => image = <<>>
    /\ port = "image" /\ peer = "open" /\ answer = "PICTURE_OK" =>
         /\ pc = "picture" => Laid(image, records, Ahead, size, read)
         /\ pc = "shut" => \E total \in size .. size + BUFFER_SIZE - 1 :
                               Laid(image, records, Ahead, size, total)

IInv == CopyInv /\ LockStepInv /\ PictureInv /\ ImageInv
=============================================================================
