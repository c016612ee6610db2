------------------------------ MODULE Framing ------------------------------
(***************************************************************************)
(* Lines and pictures over one TLS connection of the robot: read_msg and   *)
(* its cmd buffer, put_response, prepare_response and send_msg on the way  *)
(* back, the chunks of send_picture, and the BufferedReader and the stream *)
(* by which the client takes them.                                         *)
(*                                                                         *)
(* RobotServer takes a line and its answer for one step each; this module  *)
(* has what is between: a line arrives in any pieces, and cmd and response *)
(* keep what nobody clears.  The command port reads line after line on one *)
(* connection; the image port reads one line of each of its clients.  A    *)
(* client is lock-step and may hang up at any time.  That a write to a     *)
(* client that has gone can end the process is in RobotServer.             *)
(***************************************************************************)
EXTENDS Naturals, Sequences

CONSTANTS
    CMD_LEN,        \* size of cmd and of response
    BUFFER_SIZE,    \* size of buffer: of one SSL_read, of one chunk
    ClientLines,    \* the lines clients send
    Answers,        \* the answers put_response knows
    Text,           \* the bytes of each of them, without a line's "\n"
    FileSizes       \* the sizes of pictures

Zero == 0
NL == 10
Letters == 32 .. 126
PictureByte(i) == 200 + i
NoLine == ""

ASSUME SizesAssumption ==
    /\ CMD_LEN \in Nat \ {0} /\ BUFFER_SIZE \in Nat \ {0}
    /\ FileSizes \subseteq Nat
(* The longest line of the protocol has 12 bytes, the longest answer,      *)
(* ROTATE_RIGHT_OK, 15; CMD_LEN is 16.                                     *)
ASSUME TextAssumption ==
    /\ NoLine \notin ClientLines /\ NoLine \notin Answers
    /\ \A m \in ClientLines \cup Answers :
           Text[m] \in Seq(Letters) /\ Len(Text[m]) \in 1 .. CMD_LEN - 1
ASSUME PictureAssumption ==
    "PICTURE" \in ClientLines /\ {"PICTURE_OK", "PICTURE_ERR"} \subseteq Answers
(* No other line has PICTURE's last byte in the place of that byte, so     *)
(* what other lines leave in cmd does not complete the beginning of a      *)
(* PICTURE.  (True of the protocol's lines: "E" in the seventh place.)     *)
LastOf == Len(Text["PICTURE"])
ASSUME PlaceAssumption ==
    \A m \in ClientLines \ {"PICTURE"} :
        Len(Text[m]) >= LastOf => Text[m][LastOf] # Text["PICTURE"][LastOf]

VARIABLES
    (* the client *)
    port,           \* "command" or "image"
    peer,           \* "open" or "closed"
    asked,          \* the line it sent, wholly or up to its hanging up
    told,           \* the bytes that readLine returned: <<>> before
    image,          \* the bytes it took from the stream
    (* the thread *)
    pc,             \* "read", "handle", "picture", "shut" (the connection),
                    \*   "gone" (the thread)
    taken,          \* bytes of the client's line that SSL_read returned;
                    \*   current_offset and total_bytes are the same
    cmd,
    response,
    answer,         \* the answer chosen for the line
    size, read,     \* of the picture: its size, the bytes fread has returned
    records         \* what send_msg wrote and the client has not taken

clientVars == <<port, peer, asked, told, image>>
sendVars == <<response, answer, size, read, records>>
vars == <<clientVars, pc, taken, cmd, sendVars>>

Array == 1 .. CMD_LEN
Zeros == [i \in Array |-> Zero]

TypeOK ==
    /\ port \in {"command", "image"} /\ peer \in {"open", "closed"}
    /\ asked \in ClientLines \cup {NoLine}
    /\ told \in Seq(Letters) /\ image \in Seq(Nat)
    /\ pc \in {"read", "handle", "picture", "shut", "gone"}
    /\ taken \in 0 .. CMD_LEN
    /\ cmd \in [Array -> {Zero, NL} \cup Letters]
    /\ response \in [Array -> {Zero, NL} \cup Letters]
    /\ answer \in Answers \cup {NoLine}
    /\ size \in FileSizes \cup {0} /\ read \in 0 .. size
    /\ records \in Seq(Seq(Nat))

Init ==
    /\ port \in {"command", "image"} /\ peer = "open" /\ asked = NoLine
    /\ told = <<>> /\ image = <<>>
    /\ pc = "read" /\ taken = 0 /\ cmd = Zeros
    /\ response = Zeros /\ answer = NoLine
    /\ size = 0 /\ read = 0 /\ records = <<>>

----------------------------------------------------------------------------
(* C strings in an array: a text ends before the first zero; strcspn also  *)
(* stops at "\n".                                                          *)
First(a, Stop) ==
    CHOOSE i \in DOMAIN a :
        a[i] \in Stop /\ \A j \in 1 .. i - 1 : a[j] \notin Stop
strlen(a) == First(a, {Zero}) - 1
strcspn(a) == First(a, {Zero, NL}) - 1
(* strncmp over CMD_LEN bytes is 0.                                        *)
Same(a, m) ==
    /\ \A i \in 1 .. Len(Text[m]) : a[i] = Text[m][i]
    /\ a[Len(Text[m]) + 1] = Zero

----------------------------------------------------------------------------
(* read_msg: a line and its "\n", in pieces.                               *)

Line(m) == Append(Text[m], NL)

(* Mutant: each piece is copied to the beginning of dest.                  *)
MutCopied(k) ==
    [i \in Array |-> IF i \in 1 .. k THEN Line(asked)[taken + i] ELSE cmd[i]]

(* SSL_read returned k bytes: they go after those that came before.  If    *)
(* that is too much for dest, what is copied is the excess.                *)
Copied(k) ==
    LET total == taken + k
        buffer_len == IF total > CMD_LEN THEN total - CMD_LEN ELSE k
    IN  [i \in Array |-> IF i \in taken + 1 .. taken + buffer_len
                           THEN Line(asked)[i] ELSE cmd[i]]

(* dest[strcspn(dest, "\n")] = 0.                                          *)
Stripped(a) == [a EXCEPT ![strcspn(a) + 1] = Zero]

Reads(k) ==
    /\ pc = "read" /\ asked # NoLine /\ taken + k <= Len(Line(asked))
    /\ taken' = taken + k
    /\ IF taken + k = Len(Line(asked))
         THEN cmd' = Stripped(Copied(k)) /\ pc' = "handle"
         ELSE cmd' = Copied(k) /\ UNCHANGED pc
    /\ UNCHANGED <<clientVars, sendVars>>

(* The client hung up, and the rest of its line, if any, is lost.          *)
(* session_task ends its thread; img_task does not look at the result and  *)
(* goes on with cmd as it is.                                              *)
ReadFails ==
    /\ pc = "read" /\ peer = "closed"
    /\ pc' = IF port = "command" THEN "gone" ELSE "handle"
    /\ UNCHANGED <<clientVars, taken, cmd, sendVars>>

----------------------------------------------------------------------------
(* The answer.                                                             *)

(* Mutant: two bytes are kept free, for the newline and the zero.          *)
MutPut_response(a) ==
    [i \in Array |-> IF i <= Len(Text[a]) /\ i < CMD_LEN - 1
                       THEN Text[a][i] ELSE Zero]

(* strncpy over CMD_LEN bytes: the text, then zeros.                       *)
put_response(a) ==
    [i \in Array |-> IF i <= Len(Text[a]) THEN Text[a][i] ELSE Zero]

(* "\n" takes the place of the zero.                                       *)
prepare_response(a) == [a EXCEPT ![strlen(a) + 1] = NL]
res_len(a) == strlen(a) + 1

(* send_msg: one SSL_write is one record.  It is lost if nobody is there.  *)
send_msg(msg) ==
    records' = IF peer = "open" THEN Append(records, msg) ELSE records

SendsAnswer(a) ==
    /\ answer' = a
    /\ LET text == put_response(a)
       IN  send_msg([i \in 1 .. res_len(text) |-> prepare_response(text)[i]])

(* session_task: any answer of the protocol, then both buffers are cleared *)
(* and it reads on or, if should_quit, ends its thread.                    *)
HandleCommand ==
    /\ pc = "handle" /\ port = "command"
    /\ \E a \in Answers : SendsAnswer(a)
    /\ cmd' = Zeros /\ response' = Zeros
    /\ pc' \in {"read", "gone"}
    /\ UNCHANGED <<clientVars, taken, size, read>>

(* img_task: PICTURE_ERR to any other line.  cmd is left as it is.         *)
RejectsLine ==
    /\ pc = "handle" /\ port = "image" /\ ~Same(cmd, "PICTURE")
    /\ SendsAnswer("PICTURE_ERR")
    /\ response' = prepare_response(put_response("PICTURE_ERR"))
    /\ pc' = "shut"
    /\ UNCHANGED <<clientVars, taken, cmd, size, read>>

(* The session ended in the meantime: so does the thread, for the flag     *)
(* does not rise again under its loop.                                     *)
RejectsPicture ==
    /\ pc = "handle" /\ port = "image" /\ Same(cmd, "PICTURE")
    /\ SendsAnswer("PICTURE_ERR")
    /\ response' = prepare_response(put_response("PICTURE_ERR"))
    /\ pc' = "gone"
    /\ UNCHANGED <<clientVars, taken, cmd, size, read>>

AcceptsPicture ==
    /\ pc = "handle" /\ port = "image" /\ Same(cmd, "PICTURE")
    /\ SendsAnswer("PICTURE_OK")
    /\ response' = prepare_response(put_response("PICTURE_OK"))
    /\ pc' = "picture"
    /\ size' \in FileSizes /\ read' = 0
    /\ UNCHANGED <<clientVars, taken, cmd>>

----------------------------------------------------------------------------
(* send_picture: filesize / BUFFER_SIZE whole chunks, then the rest in a   *)
(* chunk of zeros.                                                         *)

fread(n) == [i \in 1 .. BUFFER_SIZE |-> IF i <= n THEN PictureByte(read + i) ELSE Zero]

SendsChunk ==
    /\ pc = "picture" /\ size - read >= BUFFER_SIZE
    /\ send_msg(fread(BUFFER_SIZE))
    /\ read' = read + BUFFER_SIZE
    /\ UNCHANGED <<clientVars, pc, taken, cmd, response, answer, size>>

(* Mutant: the chunk of the rest is as long as a rest that is not there.   *)
MutSendsRest ==
    /\ pc = "picture" /\ size - read < BUFFER_SIZE
    /\ UNCHANGED records
    /\ read' = size
    /\ cmd' = Zeros /\ pc' = "shut"
    /\ UNCHANGED <<clientVars, taken, response, answer, size>>

(* Mutant: cmd is not cleared after the picture.                           *)
MutSendsRestKeepsCmd ==
    /\ pc = "picture" /\ size - read < BUFFER_SIZE
    /\ IF size - read > 0 THEN send_msg(fread(size - read)) ELSE UNCHANGED records
    /\ read' = size
    /\ pc' = "shut"
    /\ UNCHANGED <<clientVars, taken, cmd, response, answer, size>>

(* The rest, then cmd is cleared and the connection shut down.             *)
SendsRest ==
    /\ pc = "picture" /\ size - read < BUFFER_SIZE
    /\ IF size - read > 0 THEN send_msg(fread(size - read)) ELSE UNCHANGED records
    /\ read' = size
    /\ cmd' = Zeros /\ pc' = "shut"
    /\ UNCHANGED <<clientVars, taken, response, answer, size>>

----------------------------------------------------------------------------
(* The client.                                                             *)

(* A line, once the last one is answered; on the image port only one.      *)
Asks(m) ==
    /\ peer = "open"
    /\ asked = NoLine \/ (port = "command" /\ told # <<>>)
    /\ asked' = m /\ told' = <<>> /\ taken' = 0
    /\ UNCHANGED <<port, peer, image, pc, cmd, sendVars>>

(* Mutant: the line is taken with its end.                                 *)
MutTakesAnswer ==
    /\ peer = "open" /\ told = <<>> /\ records # <<>>
    /\ told' = Head(records) /\ records' = Tail(records)
    /\ UNCHANGED <<port, peer, asked, image, pc, taken, cmd, response, answer,
                   size, read>>

(* readLine.  The BufferedReader asks the socket for as much as it can get *)
(* and the socket returns what is in one record: an answer is in a record  *)
(* of its own, so no byte of the picture is left behind in the reader.     *)
TakesAnswer ==
    /\ peer = "open" /\ told = <<>> /\ records # <<>>
    /\ told' = SubSeq(Head(records), 1, First(Head(records), {NL}) - 1)
    /\ records' = Tail(records)
    /\ UNCHANGED <<port, peer, asked, image, pc, taken, cmd, response, answer,
                   size, read>>

TakesImageBytes ==
    /\ peer = "open" /\ told = Text["PICTURE_OK"] /\ port = "image"
    /\ records # <<>>
    /\ image' = image \o Head(records) /\ records' = Tail(records)
    /\ UNCHANGED <<port, peer, asked, told, pc, taken, cmd, response, answer,
                   size, read>>

HangsUp ==
    /\ peer = "open" /\ peer' = "closed" /\ records' = <<>>
    /\ UNCHANGED <<port, asked, told, image, pc, taken, cmd, response, answer,
                   size, read>>

(* img_task accepts its next client, with the buffers of the last one.     *)
NextClient ==
    /\ port = "image" /\ pc = "shut"
    /\ peer' = "open" /\ asked' = NoLine /\ told' = <<>> /\ image' = <<>>
    /\ pc' = "read" /\ taken' = 0 /\ records' = <<>> /\ size' = 0 /\ read' = 0
    /\ answer' = NoLine
    /\ UNCHANGED <<port, cmd, response>>

----------------------------------------------------------------------------
Next ==
    \/ \E k \in 1 .. BUFFER_SIZE : Reads(k)
    \/ ReadFails \/ HandleCommand
    \/ RejectsLine \/ RejectsPicture \/ AcceptsPicture
    \/ SendsChunk \/ SendsRest
    \/ \E m \in ClientLines : Asks(m)
    \/ TakesAnswer \/ TakesImageBytes \/ HangsUp \/ NextClient

Spec == Init /\ [][Next]_vars
=============================================================================
