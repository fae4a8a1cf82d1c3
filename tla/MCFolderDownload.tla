-------------------------- MODULE MCFolderDownload --------------------------
(* A folder of at most two files; a second scan after a resume.            *)
EXTENDS FolderDownload

MCScans == {"first", "second"}
=============================================================================
