----------------------------- MODULE JsonValues -----------------------------
(***************************************************************************)
(* Values of the wire format, in the program and as JSON: [is |-> the type]*)
(* and the content.  A scalar's content is "default", "given", or "PROTO"  *)
(* for the name an enumeration has in the protocol buffers.                *)
(***************************************************************************)

\* Undefined is Absent, a value that cannot be read Failed.
Absent == [is |-> "absent"]
Failed == [is |-> "failed"]

Scalar(kind, v) == [is |-> kind, v |-> v]
Object(f) == [is |-> "object", v |-> f]
List(s)   == [is |-> "list", v |-> s]

\* Something of a type nobody looks for.
Junk == Scalar("junk", "given")

\* Enumerations are strings.
JsonKind(f) == IF f.kind \in {"role", "state", "filter"} THEN "string" ELSE f.kind

\* What is written into a field that holds no value of another type.
Plain(f)   == f.kind \notin {"one", "many", "map"}
Default(f) == Scalar(JsonKind(f), "default")
Given(f)   == Scalar(JsonKind(f), "given")
=============================================================================
