------------------------------ MODULE PutPipe ------------------------------
(***************************************************************************)
(* One upload of cache/rebuilder.go, rebuild(): a goroutine archives the   *)
(* source into an io.Pipe, storage.Put hands the reading end to a backend  *)
(* and waits for its answer or for the operation timeout, the backend's    *)
(* goroutine copies the pipe to the object.                                *)
(*                                                                         *)
(* The pipe has no buffer: a write returns when the reader has taken the   *)
(* block.  A block is a member of the archive (header and content), or its *)
(* trailer; content is counted in members.                                 *)
(***************************************************************************)
EXTENDS Naturals

CONSTANTS
  Members,  \* how many files, directories and links the source has
  Backend,  \* how the backend makes an upload visible, as in Rebuild
  Before    \* the object of an earlier save, or no object

(* Complete members, an incomplete one after them, the trailer. *)
Archive == [members: Nat, torn: BOOLEAN, trailer: BOOLEAN]

Empty == [members |-> 0, torn |-> FALSE, trailer |-> FALSE]
Whole == [members |-> Members, torn |-> FALSE, trailer |-> TRUE]

(* The last file is short of its header, and there is no trailer. *)
Shortened == [members |-> Members - 1, torn |-> TRUE, trailer |-> FALSE]

ASSUME PutPipeAssumption ==
  /\ Members \in Nat
  /\ Backend \in {"uploader", "writer", "file"}
  /\ Before \notin Archive \cup {Shortened}

VARIABLES
  archiver,   \* where the archiving goroutine is
  createErr,  \* archive.Create has failed
  stream,     \* what went through the pipe
  counted,    \* the archived size has been added to "written"
  writer,     \* the writing end of the pipe
  reader,     \* the reading end of the pipe
  backend,    \* where the backend's goroutine is
  put,        \* what storage.Put returned
  object      \* what is stored at the key

vars == <<archiver, createErr, stream, counted, writer, reader, backend, put, object>>

Init ==
  /\ archiver = "walk"
  /\ createErr = FALSE
  /\ stream = Empty
  /\ counted = FALSE
  /\ writer = "open"
  /\ reader = "open"
  /\ backend = "idle"
  /\ put = "wait"
  /\ object = Before

-----------------------------------------------------------------------------
(* The archiving goroutine: tar.Create and what rebuild() wraps around it. *)

(* A write meets a read. *)
Pass(content) ==
  /\ reader = "open"
  /\ backend = "copy"
  /\ stream' = content
  /\ backend' = "hold"

Torn == [stream EXCEPT !.torn = TRUE]

(* The members the walk has visited. *)
Visited == stream.members + (IF stream.torn THEN 1 ELSE 0)

Walking == archiver = "walk" /\ Visited < Members

ArchiveMember ==
  /\ Walking
  /\ ~ stream.torn
  /\ Pass([stream EXCEPT !.members = @ + 1])
  /\ UNCHANGED <<archiver, createErr, counted, writer, reader, put, object>>

(***************************************************************************)
(* The file is shorter than when its header was written: io.Copy ends      *)
(* early without an error.  The tar writer notices when the next header is *)
(* written (ArchiveFails), or when it is closed.                           *)
(***************************************************************************)
ArchiveShrunkFile ==
  /\ Walking
  /\ ~ stream.torn
  /\ Pass(Torn)
  /\ UNCHANGED <<archiver, createErr, counted, writer, reader, put, object>>

(***************************************************************************)
(* Lstat, Walk, opening or reading the file fails, or its header is        *)
(* refused: the member before it is short of its announced size.  Or a     *)
(* member, which may be the last, is all written, and then turns out too   *)
(* long for its header, or its file cannot be closed.                      *)
(***************************************************************************)
ArchiveFails ==
  /\ archiver = "walk"
  /\ \/ UNCHANGED <<stream, backend>>
     \/ Walking /\ ~ stream.torn /\ Pass(Torn)
  /\ createErr' = TRUE
  /\ archiver' = "trailer"
  /\ UNCHANGED <<counted, writer, reader, put, object>>

(* A write to a pipe whose reading end is closed. *)
ArchiveRefused ==
  /\ Walking
  /\ reader = "closed"
  /\ createErr' = TRUE
  /\ archiver' = "trailer"
  /\ UNCHANGED <<stream, counted, writer, reader, backend, put, object>>

WalkEnds ==
  /\ archiver = "walk"
  /\ Visited = Members
  /\ archiver' = "trailer"
  /\ UNCHANGED <<createErr, stream, counted, writer, reader, backend, put, object>>

MutantAfterTrailer == "close"

(* The size is added before the pipe is closed. *)
AfterTrailer == "count"

(***************************************************************************)
(* The deferred Close of the tar writer: it writes the trailer, after an   *)
(* error too, unless the last member is short.  Its error is only logged.  *)
(***************************************************************************)
CloseTar ==
  /\ archiver = "trailer"
  /\ \/ ~ stream.torn /\ Pass([stream EXCEPT !.trailer = TRUE])
     \/ (stream.torn \/ reader = "closed") /\ UNCHANGED <<stream, backend>>
  /\ archiver' = IF createErr THEN "fail" ELSE AfterTrailer
  /\ UNCHANGED <<createErr, counted, writer, reader, put, object>>

MutantFailWriter == "eof"

(* pw.CloseWithError *)
FailWriter == "error"

FailPipe ==
  /\ archiver = "fail"
  /\ writer' = FailWriter
  /\ archiver' = "count"
  /\ UNCHANGED <<createErr, stream, counted, reader, backend, put, object>>

CountWritten ==
  /\ archiver = "count"
  /\ counted' = TRUE
  /\ archiver' = "close"
  /\ UNCHANGED <<createErr, stream, writer, reader, backend, put, object>>

(* The first error a pipe is closed with stays. *)
ClosePipe ==
  /\ archiver = "close"
  /\ writer' = IF writer = "open" THEN "eof" ELSE writer
  /\ archiver' = "done"
  /\ UNCHANGED <<createErr, stream, counted, reader, backend, put, object>>

-----------------------------------------------------------------------------
(* The backend's goroutine. *)

Open ==
  /\ backend = "idle"
  /\ backend' = "copy"
  /\ object' = IF Backend = "file" THEN Empty ELSE object
  /\ UNCHANGED <<archiver, createErr, stream, counted, writer, reader, put>>

(* No directory, no file, no connection; the GCS writer opens lazily. *)
OpenFails ==
  /\ backend = "idle"
  /\ Backend # "writer"
  /\ backend' = "refused"
  /\ UNCHANGED <<archiver, createErr, stream, counted, writer, reader, put, object>>

CopyBlock ==
  /\ backend = "hold"
  /\ backend' = "copy"
  /\ object' = IF Backend = "file" THEN stream ELSE object
  /\ UNCHANGED <<archiver, createErr, stream, counted, writer, reader, put>>

CopyFails ==
  /\ \/ backend = "hold"
     \/ backend = "copy" /\ (writer = "error" \/ reader = "closed")
  /\ backend' = "error"
  /\ UNCHANGED <<archiver, createErr, stream, counted, writer, reader, put, object>>

ReadEOF ==
  /\ backend = "copy"
  /\ writer = "eof"
  /\ reader = "open"
  /\ backend' = "close"
  /\ UNCHANGED <<archiver, createErr, stream, counted, writer, reader, put, object>>

(***************************************************************************)
(* The end of the upload: the object is there and the answer arrives, it   *)
(* is there and the answer is lost (or setting its ACL fails), or it is    *)
(* not there.                                                              *)
(***************************************************************************)
ClosePut ==
  /\ backend = "close"
  /\ \/ object' = stream /\ backend' \in {"ok", "error"}
     \/ UNCHANGED object /\ backend' = "error"
  /\ UNCHANGED <<archiver, createErr, stream, counted, writer, reader, put>>

(***************************************************************************)
(* After a failed copy, and once Put has taken the error, the backend      *)
(* closes the object: a GCS writer then publishes what it has, unless the  *)
(* context, cancelled when Put returns, stops it.                          *)
(***************************************************************************)
CloseAfterError ==
  /\ backend = "cleanup"
  /\ backend' = "done"
  /\ object' \in {object} \cup (IF Backend = "writer" THEN {stream} ELSE {})
  /\ UNCHANGED <<archiver, createErr, stream, counted, writer, reader, put>>

-----------------------------------------------------------------------------
(* storage.Put and the caller of rebuild(). *)

MutantAnswer(answer) == "ok"

(* An error sent on errCh, or nil when errCh is closed. *)
Answer(answer) == answer

ReceiveOK ==
  /\ put = "wait"
  /\ backend = "ok"
  /\ put' = "ok"
  /\ backend' = "done"
  /\ UNCHANGED <<archiver, createErr, stream, counted, writer, reader, object>>

(***************************************************************************)
(* After a failed MkdirAll, and once Put has taken the error, the goroutine*)
(* of the filesystem backend goes on to os.Create: there is no return.     *)
(***************************************************************************)
AfterRefusal == IF Backend = "file" THEN {"done", "idle"} ELSE {"done"}

ReceiveError ==
  /\ put = "wait"
  /\ backend \in {"refused", "error"}
  /\ put' = Answer("failed")
  /\ backend' \in IF backend = "error" THEN {"cleanup"} ELSE AfterRefusal
  /\ UNCHANGED <<archiver, createErr, stream, counted, writer, reader, object>>

(* ctx.Done(): Put returns, the backend's goroutine goes on. *)
Timeout ==
  /\ put = "wait"
  /\ put' = "failed"
  /\ UNCHANGED <<archiver, createErr, stream, counted, writer, reader, backend, object>>

MutantClosesReader == put = "ok"

(* pr.CloseWithError after an error, the deferred Close on every path. *)
ClosesReader == put # "wait"

CloseReader ==
  /\ ClosesReader
  /\ reader = "open"
  /\ reader' = "closed"
  /\ UNCHANGED <<archiver, createErr, stream, counted, writer, backend, put, object>>

-----------------------------------------------------------------------------
ArchiverStep ==
  \/ ArchiveMember \/ ArchiveShrunkFile \/ ArchiveFails \/ ArchiveRefused
  \/ WalkEnds \/ CloseTar \/ FailPipe \/ CountWritten \/ ClosePipe

BackendStep ==
  \/ Open \/ OpenFails \/ CopyBlock \/ CopyFails \/ ReadEOF
  \/ ClosePut \/ CloseAfterError

CallerStep == ReceiveOK \/ ReceiveError \/ Timeout \/ CloseReader

(***************************************************************************)
(* rebuild() has returned and the archiver has ended.  The backend's       *)
(* goroutine may stay behind, sending an error on errCh that Put, after a  *)
(* timeout, no longer receives.                                            *)
(***************************************************************************)
Ended ==
  /\ archiver = "done" /\ reader = "closed"
  /\ UNCHANGED vars

Next == ArchiverStep \/ BackendStep \/ CallerStep \/ Ended

Spec == Init /\ [][Next]_vars

(***************************************************************************)
(* Goroutines that can run do run.  The timer of the context is not needed *)
(* for fairness: CallerStep contains Timeout, enabled until Put returns.   *)
(***************************************************************************)
Fairness == WF_vars(ArchiverStep) /\ WF_vars(BackendStep) /\ WF_vars(CallerStep)

FairSpec == Spec /\ Fairness

-----------------------------------------------------------------------------
(* Properties. *)

(* The variables keep their types. *)
TypeOK ==
  /\ archiver \in {"walk", "trailer", "fail", "count", "close", "done"}
  /\ createErr \in BOOLEAN
  /\ stream \in Archive
  /\ counted \in BOOLEAN
  /\ writer \in {"open", "eof", "error"}
  /\ reader \in {"open", "closed"}
  /\ backend \in {"idle", "refused", "copy", "hold", "close", "ok", "error",
                  "cleanup", "done"}
  /\ put \in {"wait", "ok", "failed"}
  /\ object \in Archive \cup {Before}

(***************************************************************************)
(* rebuild() returns nil only for a whole archive: every member and the    *)
(* trailer went through the pipe and are the object.  archive.Create       *)
(* writes a well-formed trailer after an error as well, so only the error  *)
(* the pipe is closed with keeps a partial archive from being published.   *)
(* The one exception the code makes: if the last file shrinks while it is  *)
(* archived, nobody hears of it, and the archive ends within that file.    *)
(***************************************************************************)
AsWhole == {Whole, Shortened}

SuccessIsWhole == put = "ok" => object \in AsWhole

(***************************************************************************)
(* The size rebuild() reads after Put, without a lock, is the final one:   *)
(* the archiver has added it before the end of file the backend waits for. *)
(***************************************************************************)
SizeIsFinal == put = "ok" => counted

(***************************************************************************)
(* rebuild() implements the contract of Upload, for which an archive that  *)
(* ends within a last file that shrank is whole too.                       *)
(***************************************************************************)
status ==
  IF put # "wait" THEN put
  ELSE IF backend \in {"idle", "refused"} THEN "scheduled" ELSE "running"

kind ==
  IF object = Before THEN "before" ELSE IF object \in AsWhole THEN "whole" ELSE "partial"

Contract == INSTANCE Upload WITH object <- kind

ImplementsUpload == Contract!Spec

(***************************************************************************)
(* The archiver never stays behind blocked on the pipe, whatever the       *)
(* backend did: the reading end is closed on every path.                   *)
(***************************************************************************)
ArchiverEnds == <>(archiver = "done")

-----------------------------------------------------------------------------
(***************************************************************************)
(* The inductive invariant.                                                *)
(***************************************************************************)

(* What the archiver has done when it reaches its last steps. *)
ArchiverInv ==
  /\ archiver = "walk" => ~ createErr /\ Visited <= Members
  /\ archiver # "walk" /\ ~ createErr => Visited = Members
  /\ archiver \in {"walk", "trailer"} \/ stream.torn => ~ stream.trailer
  /\ archiver \in {"count", "close", "done"} =>
       IF createErr THEN writer = "error" ELSE stream \in AsWhole \/ reader = "closed"
  /\ archiver = "fail" => createErr
  /\ archiver \in {"close", "done"} => counted
  /\ writer = "eof" => ~ createErr /\ archiver = "done"

(* What the backend holds, and what Put may say of it. *)
BackendInv ==
  /\ backend \in {"close", "ok"} => stream \in AsWhole /\ counted
  /\ backend = "ok" => object \in AsWhole
  /\ put = "ok" => object \in AsWhole /\ backend = "done" /\ counted
  /\ backend \in {"cleanup", "done"} => put # "wait"
  /\ reader = "closed" => put # "wait"
  /\ Backend = "file" /\ object \in AsWhole => stream = object
  /\ Backend = "file" /\ backend \in {"copy", "hold"} => object # Before

PipeInv == ArchiverInv /\ BackendInv

IInv == TypeOK /\ PipeInv
=============================================================================
