---------------------------- MODULE MCDAVRequest ----------------------------
(***************************************************************************)
(* DAVRequest for TLC: the methods, codes and framings each run looks at.  *)
(***************************************************************************)
EXTENDS DAVRequest

\* Methods that change the server, with a code each accepts and one it refuses.
WriteOps == {"Put", "Delete", "Lock"}
WriteCodes == {200, 204, 423}
WriteFramings == {"empty", "chunked", "interimBare"}

\* Methods that deliver data; 302 makes a GET follow a redirect.
ReadOps == {"Get", "ListDirectory", "Options"}
ReadCodes == {200, 207, 302}
ReadFramings == {"length", "toClose", "interimLength", "interimBare"}

LiveFramings == {"empty", "length"}
LengthOnly == {"length"}
CancelOps == {"Put", "Delete"}
GetOnly == {"Get"}
GetCodes == {200, 404}
=============================================================================
