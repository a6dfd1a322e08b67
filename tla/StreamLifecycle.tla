--------------------------- MODULE StreamLifecycle ---------------------------
(***************************************************************************)
(* net::detail::StreamLifecycle (include/alyrn/net/detail/                 *)
(* stream_lifecycle.h): what a connected stream of either backend still    *)
(* admits.  It owns no descriptor and performs no syscall; the streams map *)
(* their operations to its transitions.                                    *)
(*                                                                         *)
(* kShutdownPreparing is left out: both streams prepare a half close, call *)
(* shutdown(2) and commit or abort it in one step of the loop thread.      *)
(***************************************************************************)

NewLifecycle == [resource |-> "Open", read |-> "Readable", write |-> "Writable"]

(* The answers of the Validate and Prepare members are "ok" or an error.   *)
ValidateResource(l) ==
  CASE l.resource = "Closing" -> "ECANCELED"
    [] l.resource = "Closed" -> "EBADF"
    [] OTHER -> "ok"

ValidateRead(l) == ValidateResource(l)

ValidateWrite(l) ==
  IF ValidateResource(l) = "ok" /\ l.write = "Shutdown" THEN "EPIPE"
  ELSE ValidateResource(l)

IsReadShutdown(l) == l.read = "Shutdown"

(* PrepareCloseRead() and CommitCloseRead(); PrepareShutdown() and           *)
(* CommitShutdown(): refused while the stream closes or an operation of the  *)
(* same direction is pending.                                                *)
MayCloseRead(l, readPending) == ValidateRead(l) = "ok" /\ ~readPending

CloseReadSide(l) == [l EXCEPT !.read = "Shutdown"]

MayShutdown(l, writePending) == ValidateResource(l) = "ok" /\ ~writePending

ShutdownSide(l) == [l EXCEPT !.write = "Shutdown"]

(* PrepareClose(), AbortClosePreparation() and MarkClosed().                 *)
MayClose(l) == l.resource = "Open"

PrepareClose(l) == [l EXCEPT !.resource = "Closing"]

AbortClosePreparation(l) == [l EXCEPT !.resource = "Open"]

MarkClosed(l) == [l EXCEPT !.resource = "Closed"]
=============================================================================
