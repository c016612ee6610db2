--------------------------- MODULE RobotProtocol ---------------------------
(***************************************************************************)
(* The line protocol of the robot: the commands a client may send on the   *)
(* command connection, the response codes and their texts, what            *)
(* process_cmd answers and which motor function it calls, and the          *)
(* confirmation the Java side expects for each command.                    *)
(*                                                                         *)
(* A line is a string without its terminating "\n".  strncmp over CMD_LEN  *)
(* bytes is equality on lines of fewer than CMD_LEN bytes, and every       *)
(* string below is one.                                                    *)
(***************************************************************************)
EXTENDS Naturals

----------------------------------------------------------------------------
(* Response codes (protocol.h).                                            *)

CONN_OK == 42
CONN_ERR == 43
DISCONN_OK == 44
DISCONN_ERR == 45
FWD_OK == 46
STOP_OK == 47
BKWD_OK == 48
ROTATE_LEFT_OK == 49
ROTATE_RIGHT_OK == 50
FRONT_L_OK == 51
FRONT_R_OK == 52
BCK_L_OK == 53
BCK_R_OK == 54
CMD_ERR == 55
PING == 56
PICTURE_OK == 57
PICTURE_ERR == 58

(* The text of a response code.  The C function writes it into a buffer    *)
(* that strncpy pads with zeros, so the text is all that remains of it.    *)
put_response(code) ==
    CASE code = CONN_OK -> "CONN_OK"
      [] code = CONN_ERR -> "CONN_ERR"
      [] code = FWD_OK -> "FWD_OK"
      [] code = BKWD_OK -> "BKWD_OK"
      [] code = STOP_OK -> "STOP_OK"
      [] code = ROTATE_LEFT_OK -> "ROTATE_LEFT_OK"
      [] code = ROTATE_RIGHT_OK -> "ROTATE_RIGHT_OK"
      [] code = FRONT_L_OK -> "FRONT_L_OK"
      [] code = FRONT_R_OK -> "FRONT_R_OK"
      [] code = BCK_L_OK -> "BCK_L_OK"
      [] code = BCK_R_OK -> "BCK_R_OK"
      [] code = DISCONN_OK -> "DISCONN_OK"
      [] code = DISCONN_ERR -> "DISCONN_ERR"
      [] code = PING -> "PING"
      [] code = PICTURE_OK -> "PICTURE_OK"
      [] code = PICTURE_ERR -> "PICTURE_ERR"
      [] OTHER -> "CMD_ERR"

(* Every text the server can put on the wire.                              *)
Responses == {put_response(code) : code \in CONN_OK .. PICTURE_ERR}

----------------------------------------------------------------------------
(* process_cmd: the motor function a command runs and the code it answers. *)

MotorCall ==
    [FWD          |-> "runForward",
     BKWD         |-> "runBackward",
     STOP         |-> "idle",
     ROTATE_LEFT  |-> "rotateLeft",
     ROTATE_RIGHT |-> "rotateRight",
     FRONT_L      |-> "turnLeftF",
     FRONT_R      |-> "turnRightF",
     BCK_L        |-> "turnLeftB",
     BCK_R        |-> "turnRightB"]

MotorCommands == DOMAIN MotorCall
MotorCalls == {MotorCall[m] : m \in MotorCommands}

(* Mutant: the codes of two turns are exchanged.                           *)
MutResponseCode ==
    [CONN         |-> CONN_OK,
     FWD          |-> FWD_OK,
     BKWD         |-> BKWD_OK,
     STOP         |-> STOP_OK,
     ROTATE_LEFT  |-> ROTATE_LEFT_OK,
     ROTATE_RIGHT |-> ROTATE_RIGHT_OK,
     FRONT_L      |-> FRONT_R_OK,
     FRONT_R      |-> FRONT_L_OK,
     BCK_L        |-> BCK_L_OK,
     BCK_R        |-> BCK_R_OK,
     DISCONN      |-> DISCONN_OK,
     PING         |-> PING,
     PICTURE      |-> PICTURE_ERR]

ResponseCode ==
    [CONN         |-> CONN_OK,
     FWD          |-> FWD_OK,
     BKWD         |-> BKWD_OK,
     STOP         |-> STOP_OK,
     ROTATE_LEFT  |-> ROTATE_LEFT_OK,
     ROTATE_RIGHT |-> ROTATE_RIGHT_OK,
     FRONT_L      |-> FRONT_L_OK,
     FRONT_R      |-> FRONT_R_OK,
     BCK_L        |-> BCK_L_OK,
     BCK_R        |-> BCK_R_OK,
     DISCONN      |-> DISCONN_OK,
     PING         |-> PING,
     PICTURE      |-> PICTURE_ERR]

Commands == DOMAIN ResponseCode

(* A line no branch of process_cmd recognises, and the absence of a line.  *)
Unknown == "?"
NoLine == ""

Lines == Commands \cup {Unknown}

(* Mutant: the branch of STOP answers as that of FWD.                      *)
MutCodeOfStop(cmd) ==
    CASE cmd = "STOP" -> FWD_OK
      [] cmd \in Commands \ {"STOP"} -> ResponseCode[cmd]
      [] OTHER -> CMD_ERR

(* Mutant: no branch for PING.                                             *)
MutCodeOf(cmd) ==
    IF cmd \in Commands \ {"PING"} THEN ResponseCode[cmd] ELSE CMD_ERR

CodeOf(cmd) == IF cmd \in Commands THEN ResponseCode[cmd] ELSE CMD_ERR

(* Mutant: STOP is confirmed without idle().                               *)
MutMotionAfter(cmd, before) ==
    IF cmd \in MotorCommands \ {"STOP"} THEN MotorCall[cmd] ELSE before

(* The two effects of process_cmd(cmd, response): the response text, and   *)
(* the motor function that was called last (`before` when none is).        *)
process_cmd(cmd) == put_response(CodeOf(cmd))
MotionAfter(cmd, before) ==
    IF cmd \in MotorCommands THEN MotorCall[cmd] ELSE before

----------------------------------------------------------------------------
(* The Java side: the confirmation ProtocolCommands expects for each       *)
(* message it can send on the command connection.                          *)

messageConfirmation ==
    [CONN         |-> "CONN_OK",
     FWD          |-> "FWD_OK",
     BKWD         |-> "BKWD_OK",
     ROTATE_LEFT  |-> "ROTATE_LEFT_OK",
     ROTATE_RIGHT |-> "ROTATE_RIGHT_OK",
     FRONT_L      |-> "FRONT_L_OK",
     FRONT_R      |-> "FRONT_R_OK",
     BCK_L        |-> "BCK_L_OK",
     BCK_R        |-> "BCK_R_OK",
     DISCONN      |-> "DISCONN_OK",
     STOP         |-> "STOP_OK",
     PING         |-> "PING"]

ClientMessages == DOMAIN messageConfirmation
=============================================================================
