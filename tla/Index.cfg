SPECIFICATION IndexSpec
CONSTANTS
    long = long
    short = short
    textA = textA
    textB = textB
    Absent = Absent
    Items = {i1}
    Sessions = {s1}
    Contents = {long, short}
    Texts = {textA, textB}
    Chunks <- MCChunks
    MaxRow = 3
INVARIANTS Whole VectorsFit RowsFollowDisk
