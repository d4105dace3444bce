--------------------------- MODULE MCFileTransfer ---------------------------
(* FileTransfer with two transfers of files of up to two chunks.           *)
EXTENDS FileTransfer

MCContents == {<<>>, <<1, 1>>, <<1, 2>>}

=============================================================================
