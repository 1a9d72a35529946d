------------------------------ MODULE MCUploads ------------------------------
(***************************************************************************)
(* Multipart bodies for TLC: every shape of a part, data that ends in a    *)
(* line end, a body that is not closed, and files of different length.     *)
(***************************************************************************)
EXTENDS Uploads

CONSTANTS cellA, cellB,        \* cells other than a line end
          fileA, fileB

Part(shape, name, data) == [shape |-> shape, file |-> name, data |-> data]
Body(parts, closed) == [parts |-> parts, closed |-> closed]
MCMultiparts ==
    {Body(<<Part("whole", NoName, <<cellA>>), Part("whole", fileA, <<cellA, cellB, Crlf>>),
            Part("whole", fileB, <<>>)>>, TRUE),
     Body(<<Part("whole", fileA, <<cellB>>), Part("undisposed", fileB, <<cellA>>)>>, TRUE),
     Body(<<Part("whole", fileA, <<cellA, cellA>>), Part("empty", NoName, <<>>),
            Part("headless", fileB, <<cellA>>)>>, TRUE),
     Body(<<Part("whole", fileB, <<Crlf, cellB>>), Part("headless", fileA, <<cellB>>)>>, FALSE),
     Body(<<Part("empty", NoName, <<>>)>>, TRUE)}
MCCells == {cellA, cellB, Crlf}
================================================================================
