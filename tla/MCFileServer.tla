---------------------------- MODULE MCFileServer ----------------------------
(* Two clients and one file, which can be asked for by two names. *)
EXTENDS FileServer

CONSTANTS a, b

MCSafeName == [r \in {"p_q", "p/q"} |-> "p_q"]
=============================================================================
