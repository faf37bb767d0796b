---------------------------- MODULE MCTableCalls ----------------------------
(***************************************************************************)
(* The raw table of MCRawTable, with calls that run the caller's code.     *)
(***************************************************************************)
EXTENDS TableCalls, MCRawTable
=============================================================================
