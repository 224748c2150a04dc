------------------------------ MODULE MCFetch ------------------------------
(***************************************************************************)
(* Fetch for TLC: three feeds on one host and one on another.  In MCPorts  *)
(* the host serves two origins with different robots.txt files.            *)
(***************************************************************************)
EXTENDS Fetch

CONSTANTS f1, f2, f3, f4, here, port, there

MCOriginOf == [t \in Task |-> IF t = f4 THEN there ELSE here]
MCPorts == [t \in Task |-> IF t = f1 THEN here ELSE port]
MCHostOf == [o \in Origin |-> IF o = there THEN "b" ELSE "a"]
MCAllows == [o \in Origin |-> o # port]
=============================================================================
