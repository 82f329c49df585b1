---- MODULE MCHistoryWriter ----
(* A small instance of HistoryWriter. *)
EXTENDS HistoryWriter
====
