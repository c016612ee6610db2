SPECIFICATION Spec
CONSTANTS
    CMD_LEN = 4
    BUFFER_SIZE = 8
    ClientLines = {"PICTURE", "PING", "ROTATE"}
    Answers = {"PICTURE_OK", "PICTURE_ERR", "FWD_OK"}
    Text <- MCText
    FileSizes = {0, 1, 7, 8, 9, 16, 17}
INVARIANTS TypeOK LineReadIntact AnswerReadIntact OnlySentLinesActedOn PictureArrivesWhole
CHECK_DEADLOCK FALSE
