-------------------------- MODULE MCPackagePublish --------------------------
(* Three export runs; the first two share a process id.                    *)
EXTENDS PackagePublish

CONSTANTS e1, e2, e3

MCPid == [e \in {e1, e2, e3} |-> IF e = e3 THEN 2 ELSE 1]
=============================================================================
