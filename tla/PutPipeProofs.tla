--------------------------- MODULE PutPipeProofs ---------------------------
(***************************************************************************)
(* Proofs about PutPipe, for sources with any number of members and every  *)
(* backend: rebuild() implements the contract of Upload.                   *)
(***************************************************************************)
EXTENDS PutPipe, TLAPS

(* The archives the pipe builds. *)
LEMMA EmptyType == Empty \in Archive
BY DEF Empty, Archive

LEMMA BeforeIsNoArchive == Before \notin AsWhole /\ Before # Empty /\ Empty \notin AsWhole
<1>1. Members \in Nat /\ Before \notin Archive
  BY PutPipeAssumption
<1>2. Whole \in Archive
  BY <1>1 DEF Whole, Archive
<1>3. Before # Shortened
  BY PutPipeAssumption
<1>4. Whole # Empty /\ Shortened # Empty
  BY DEF Whole, Shortened, Empty
<1>5. QED
  BY <1>1, <1>2, <1>3, <1>4, EmptyType DEF AsWhole

LEMMA NextArchiveType ==
  ASSUME stream \in Archive
  PROVE  /\ [stream EXCEPT !.members = @ + 1] \in Archive
         /\ Torn \in Archive
         /\ [stream EXCEPT !.trailer = TRUE] \in Archive
<1>1. [stream EXCEPT !.members = @ + 1] \in Archive
  BY DEF Archive
<1>2. Torn \in Archive
  BY DEF Archive, Torn
<1>3. [stream EXCEPT !.trailer = TRUE] \in Archive
  BY DEF Archive
<1>4. QED
  BY <1>1, <1>2, <1>3

LEMMA InitType == Init => TypeOK
BY EmptyType DEF Init, TypeOK

LEMMA NextType == TypeOK /\ [Next]_vars => TypeOK'
<1> SUFFICES ASSUME TypeOK, [Next]_vars PROVE TypeOK'
  OBVIOUS
<1> USE PutPipeAssumption
<1>1. ASSUME NEW c \in Archive, Pass(c)
      PROVE  stream' \in Archive /\ backend' = "hold"
  BY <1>1 DEF Pass
<1>2. /\ [stream EXCEPT !.members = @ + 1] \in Archive
      /\ Torn \in Archive
      /\ [stream EXCEPT !.trailer = TRUE] \in Archive
      /\ Empty \in Archive
  BY EmptyType, NextArchiveType DEF TypeOK
<1>3. CASE ArchiverStep
  <2>1. CASE ArchiveMember
    BY <1>1, <1>2, <2>1 DEF ArchiveMember, TypeOK
  <2>2. CASE ArchiveShrunkFile
    BY <1>1, <1>2, <2>2 DEF ArchiveShrunkFile, TypeOK
  <2>3. CASE ArchiveFails
    BY <1>1, <1>2, <2>3 DEF ArchiveFails, TypeOK
  <2>4. CASE ArchiveRefused
    BY <2>4 DEF ArchiveRefused, TypeOK
  <2>5. CASE WalkEnds
    BY <2>5 DEF WalkEnds, TypeOK
  <2>6. CASE CloseTar
    BY <1>1, <1>2, <2>6 DEF CloseTar, AfterTrailer, TypeOK
  <2>7. CASE FailPipe \/ CountWritten \/ ClosePipe
    BY <2>7 DEF FailPipe, FailWriter, CountWritten, ClosePipe, TypeOK
  <2>8. QED
    BY <1>3, <2>1, <2>2, <2>3, <2>4, <2>5, <2>6, <2>7 DEF ArchiverStep
<1>4. CASE BackendStep
  BY <1>2, <1>4 DEF BackendStep, Open, OpenFails, CopyBlock, CopyFails, ReadEOF,
     ClosePut, CloseAfterError, TypeOK
<1>5. CASE CallerStep
  BY <1>5 DEF CallerStep, ReceiveOK, ReceiveError, AfterRefusal, Answer, Timeout,
     CloseReader, TypeOK
<1>6. CASE UNCHANGED vars
  BY <1>6 DEF vars, TypeOK
<1>7. QED
  BY <1>3, <1>4, <1>5, <1>6 DEF Next, Ended

-----------------------------------------------------------------------------
LEMMA InitPipe == Init => PipeInv
<1>1. Empty.members = 0 /\ ~ Empty.torn /\ ~ Empty.trailer
  BY DEF Empty
<1>2. QED
  BY <1>1, PutPipeAssumption, BeforeIsNoArchive DEF Init, PipeInv, ArchiverInv, BackendInv, Visited

(* Which streams are as whole as the code lets them be. *)
LEMMA StreamAsWhole ==
  ASSUME stream \in Archive
  PROVE  stream \in AsWhole <=>
           \/ stream.members = Members /\ ~ stream.torn /\ stream.trailer
           \/ stream.members = Members - 1 /\ stream.torn /\ ~ stream.trailer
<1>1. stream = [members |-> stream.members, torn |-> stream.torn, trailer |-> stream.trailer]
      /\ stream.members \in Nat /\ stream.torn \in BOOLEAN /\ stream.trailer \in BOOLEAN
  BY DEF Archive
<1>2. QED
  BY <1>1 DEF AsWhole, Whole, Shortened

(* One step of the archiver: what it does to the stream and to the backend. *)
LEMMA StreamStep ==
  ASSUME stream \in Archive
  PROVE  /\ ArchiveMember => /\ stream'.members = stream.members + 1
                             /\ stream'.torn = stream.torn /\ stream'.trailer = stream.trailer
                             /\ backend = "copy" /\ backend' = "hold"
         /\ ArchiveShrunkFile => /\ stream'.members = stream.members
                                 /\ stream'.torn /\ stream'.trailer = stream.trailer
                                 /\ backend = "copy" /\ backend' = "hold"
         /\ ArchiveFails => /\ stream'.trailer = stream.trailer
                            /\ \/ stream' = stream /\ backend' = backend
                               \/ Walking /\ backend = "copy" /\ backend' = "hold"
         /\ CloseTar => /\ stream'.members = stream.members /\ stream'.torn = stream.torn
                        /\ \/ /\ stream' = stream /\ backend' = backend
                              /\ stream.torn \/ reader = "closed"
                           \/ /\ ~ stream.torn /\ stream'.trailer
                              /\ backend = "copy" /\ backend' = "hold"
<1>1. stream = [members |-> stream.members, torn |-> stream.torn, trailer |-> stream.trailer]
      /\ stream.members \in Nat /\ stream.torn \in BOOLEAN /\ stream.trailer \in BOOLEAN
  BY DEF Archive
<1> DEFINE Longer == [stream EXCEPT !.members = @ + 1]
           Closed == [stream EXCEPT !.trailer = TRUE]
<1>2. Longer.members = stream.members + 1 /\ Longer.torn = stream.torn
      /\ Longer.trailer = stream.trailer
  BY <1>1
<1>3. Torn.members = stream.members /\ Torn.torn /\ Torn.trailer = stream.trailer
  BY <1>1 DEF Torn
<1>4. Closed.members = stream.members /\ Closed.torn = stream.torn /\ Closed.trailer
  BY <1>1
<1> HIDE DEF Longer, Closed
<1>5. ArchiveMember => stream' = Longer /\ backend = "copy" /\ backend' = "hold"
  BY DEF ArchiveMember, Pass, Longer
<1>6. ArchiveShrunkFile => stream' = Torn /\ backend = "copy" /\ backend' = "hold"
  BY DEF ArchiveShrunkFile, Pass
<1>7. ArchiveFails => \/ stream' = stream /\ backend' = backend
                      \/ /\ Walking /\ stream' = Torn
                         /\ backend = "copy" /\ backend' = "hold"
  BY DEF ArchiveFails, Pass
<1>8. CloseTar => \/ /\ stream' = stream /\ backend' = backend
                     /\ stream.torn \/ reader = "closed"
                  \/ /\ ~ stream.torn /\ stream' = Closed
                     /\ backend = "copy" /\ backend' = "hold"
  BY DEF CloseTar, Pass, Closed
<1>9. QED
  BY <1>2, <1>3, <1>4, <1>5, <1>6, <1>7, <1>8

(* A block passed on while the archive is not yet whole changes nothing    *)
(* the backend relies on.                                                  *)
LEMMA PassKeepsBackend ==
  ASSUME BackendInv,
         UNCHANGED <<counted, reader, put, object>>,
         stream \in AsWhole => stream' = stream,
         \/ backend' = backend /\ stream' = stream
         \/ backend = "copy" /\ backend' = "hold"
  PROVE  BackendInv'
BY DEF BackendInv, AsWhole, Whole, Shortened

LEMMA NextPipe == TypeOK /\ PipeInv /\ [Next]_vars => PipeInv'
<1> SUFFICES ASSUME TypeOK, PipeInv, [Next]_vars PROVE PipeInv'
  OBVIOUS
<1> USE PutPipeAssumption
<1>1. stream \in Archive /\ stream.members \in Nat /\ stream.torn \in BOOLEAN
      /\ stream.trailer \in BOOLEAN
  BY DEF TypeOK, Archive
<1>2. stream \in AsWhole <=>
        \/ stream.members = Members /\ ~ stream.torn /\ stream.trailer
        \/ stream.members = Members - 1 /\ stream.torn /\ ~ stream.trailer
  BY <1>1, StreamAsWhole
<1>3. (stream \in AsWhole <=>
        \/ stream.members = Members /\ ~ stream.torn /\ stream.trailer
        \/ stream.members = Members - 1 /\ stream.torn /\ ~ stream.trailer)'
  <2>1. stream' \in Archive
    BY NextType DEF TypeOK
  <2>2. QED
    BY <2>1, StreamAsWhole DEF AsWhole, Whole, Shortened, Archive
<1>4. CASE ArchiveMember
  <2>1. stream'.members = stream.members + 1 /\ stream'.torn = stream.torn
        /\ stream'.trailer = stream.trailer /\ backend = "copy" /\ backend' = "hold"
    BY <1>1, <1>4, StreamStep
  <2>2. archiver = "walk" /\ ~ stream.torn /\ stream.members < Members /\ ~ stream.trailer
    BY <1>1, <1>4 DEF ArchiveMember, Walking, Visited, PipeInv, ArchiverInv
  <2>3. Visited' <= Members
    BY <1>1, <2>1, <2>2 DEF Visited
  <2>4. ArchiverInv'
    BY <1>4, <2>1, <2>2, <2>3 DEF ArchiveMember, PipeInv, ArchiverInv
  <2>5. BackendInv'
    BY <1>2, <1>4, <2>1, <2>2, PassKeepsBackend DEF ArchiveMember, PipeInv
  <2>6. QED
    BY <2>4, <2>5 DEF PipeInv
<1>5. CASE ArchiveShrunkFile
  <2>1. stream'.members = stream.members /\ stream'.torn
        /\ stream'.trailer = stream.trailer /\ backend = "copy" /\ backend' = "hold"
    BY <1>1, <1>5, StreamStep
  <2>2. archiver = "walk" /\ ~ stream.torn /\ stream.members < Members /\ ~ stream.trailer
    BY <1>1, <1>5 DEF ArchiveShrunkFile, Walking, Visited, PipeInv, ArchiverInv
  <2>3. Visited' <= Members
    BY <1>1, <2>1, <2>2 DEF Visited
  <2>4. ArchiverInv'
    BY <1>5, <2>1, <2>2, <2>3 DEF ArchiveShrunkFile, PipeInv, ArchiverInv
  <2>5. BackendInv'
    BY <1>2, <1>5, <2>1, <2>2, PassKeepsBackend DEF ArchiveShrunkFile, PipeInv
  <2>6. QED
    BY <2>4, <2>5 DEF PipeInv
<1>6. CASE ArchiveFails
  <2>1. stream'.trailer = stream.trailer
        /\ \/ stream' = stream /\ backend' = backend
           \/ Walking /\ backend = "copy" /\ backend' = "hold"
    BY <1>1, <1>6, StreamStep
  <2>2. archiver = "walk" /\ ~ stream.trailer
    BY <1>6 DEF ArchiveFails, PipeInv, ArchiverInv
  <2>3. stream \in AsWhole => stream' = stream /\ backend' = backend
    BY <1>1, <1>2, <2>1, <2>2 DEF Walking, Visited
  <2>4. ArchiverInv'
    BY <1>6, <2>1, <2>2 DEF ArchiveFails, PipeInv, ArchiverInv
  <2>5. BackendInv'
    BY <1>6, <2>1, <2>3, PassKeepsBackend DEF ArchiveFails, PipeInv
  <2>6. QED
    BY <2>4, <2>5 DEF PipeInv
<1>7. CASE ArchiveRefused
  BY <1>7 DEF ArchiveRefused, Walking, Visited, PipeInv, ArchiverInv, BackendInv
<1>8. CASE WalkEnds
  BY <1>1, <1>8 DEF WalkEnds, Visited, PipeInv, ArchiverInv, BackendInv
<1>9. CASE CloseTar
  <2>1. stream'.members = stream.members /\ stream'.torn = stream.torn
    BY <1>1, <1>9, StreamStep
  <2>2. \/ stream' = stream /\ backend' = backend /\ (stream.torn \/ reader = "closed")
        \/ ~ stream.torn /\ stream'.trailer /\ backend = "copy" /\ backend' = "hold"
    BY <1>1, <1>9, StreamStep
  <2>4. Visited' = Visited
    BY <2>1 DEF Visited
  <2>5. ~ createErr => stream' \in AsWhole \/ reader = "closed"
    <3>1. CASE stream' = stream /\ stream.torn
      BY <1>1, <1>2, <1>9, <3>1 DEF CloseTar, PipeInv, ArchiverInv, Visited
    <3>2. CASE ~ stream.torn /\ stream'.trailer
      BY <1>1, <1>3, <1>9, <2>1, <3>2 DEF CloseTar, PipeInv, ArchiverInv, Visited
    <3>3. QED
      BY <2>2, <3>1, <3>2
  <2>6. ArchiverInv'
    BY <1>9, <2>1, <2>2, <2>4, <2>5 DEF CloseTar, AfterTrailer, PipeInv, ArchiverInv
  <2>7. stream \in AsWhole => stream.torn
    BY <1>2, <1>9 DEF CloseTar, PipeInv, ArchiverInv
  <2>8. BackendInv'
    BY <1>9, <2>2, <2>7, PassKeepsBackend DEF CloseTar, PipeInv
  <2>9. QED
    BY <2>6, <2>8 DEF PipeInv
<1> USE DEF PipeInv, ArchiverInv, BackendInv
<1>10. CASE FailPipe \/ CountWritten \/ ClosePipe
  BY <1>10 DEF FailPipe, FailWriter, CountWritten, ClosePipe, TypeOK, Visited
<1>11. CASE Open \/ OpenFails \/ CopyBlock \/ CopyFails
  <2>1. QED
    BY <1>11, BeforeIsNoArchive DEF Open, OpenFails, CopyBlock, CopyFails, TypeOK, Visited
<1>12. CASE ReadEOF
  BY <1>2, <1>12 DEF ReadEOF, Visited
<1>13. CASE ClosePut \/ CloseAfterError
  BY <1>13 DEF ClosePut, CloseAfterError, Visited
<1>14. CASE CallerStep
  BY <1>14 DEF CallerStep, ReceiveOK, ReceiveError, AfterRefusal, Answer, Timeout,
     CloseReader, ClosesReader, Visited
<1>15. CASE UNCHANGED vars
  BY <1>15 DEF vars, Visited
<1>16. QED
  BY <1>4, <1>5, <1>6, <1>7, <1>8, <1>9, <1>10, <1>11, <1>12, <1>13, <1>14, <1>15
     DEF Next, ArchiverStep, BackendStep, Ended

(***************************************************************************)
(* rebuild() returns nil only when the archive is the object, whole or     *)
(* short of the end of its last file, and the size it then reads is final. *)
(***************************************************************************)
THEOREM SpecSuccessIsWhole == Spec => [](SuccessIsWhole /\ SizeIsFinal)
<1>1. PipeInv => SuccessIsWhole /\ SizeIsFinal
  BY DEF PipeInv, BackendInv, SuccessIsWhole, SizeIsFinal
<1>2. QED
  BY <1>1, InitType, NextType, InitPipe, NextPipe, PTL DEF Spec

(***************************************************************************)
(* The size rebuild() reads after a Put that succeeded does not change any *)
(* more: the archiver has counted it before it closed the pipe.            *)
(***************************************************************************)
THEOREM SpecSizeIsFinal == Spec => []SizeIsFinal
BY SpecSuccessIsWhole, PTL

(***************************************************************************)
(* The invariant both follow from is one: the archiver, the pipe and the   *)
(* backend agree on how far the upload is and how it ended.                *)
(***************************************************************************)
THEOREM SpecIInv == Spec => []IInv
BY InitType, NextType, InitPipe, NextPipe, PTL DEF Spec, IInv

-----------------------------------------------------------------------------
(* Every step of the pipe is a step of the contract or leaves it alone. *)

LEMMA StepImplements ==
  ASSUME TypeOK, PipeInv, PipeInv', [Next]_vars
  PROVE  [Contract!Next]_<<status, kind>>
<1> USE PutPipeAssumption
<1>1. Before \notin AsWhole /\ Empty # Before /\ Empty \notin AsWhole
  BY BeforeIsNoArchive
<1>2. stream # Before
  BY DEF TypeOK
<1>3. CASE ArchiverStep
  <2>1. object' = object /\ put' = put
    BY <1>3 DEF ArchiverStep, ArchiveMember, ArchiveShrunkFile, ArchiveFails,
       ArchiveRefused, WalkEnds, CloseTar, FailPipe, CountWritten, ClosePipe
  <2>2. backend' = backend \/ (backend = "copy" /\ backend' = "hold")
    BY <1>3 DEF ArchiverStep, ArchiveMember, ArchiveShrunkFile, ArchiveFails,
       ArchiveRefused, WalkEnds, CloseTar, FailPipe, CountWritten, ClosePipe, Pass
  <2>3. QED
    BY <2>1, <2>2 DEF status, kind
<1>4. CASE Open
  <2>1. CASE put = "wait"
    BY <1>1, <1>4, <2>1 DEF Open, status, kind, Contract!Next, Contract!Begin
  <2>2. CASE put # "wait"
    <3>1. put = "failed"
      BY <1>4, <2>2 DEF Open, TypeOK, PipeInv, BackendInv
    <3>2. QED
      BY <1>1, <1>4, <3>1 DEF Open, status, kind, Contract!Next, Contract!Spoil
  <2>3. QED
    BY <2>1, <2>2
<1>5. CASE OpenFails
  BY <1>5 DEF OpenFails, status, kind
<1>6. CASE CopyBlock
  <2>1. CASE Backend # "file"
    BY <1>6, <2>1 DEF CopyBlock, status, kind
  <2>2. CASE Backend = "file"
    <3>1. object' = stream /\ put' = put /\ put # "ok"
          /\ (put = "wait" => status = "running" /\ status' = "running")
      BY <1>6, <2>2 DEF CopyBlock, PipeInv, BackendInv, status
    <3>2. CASE stream \in AsWhole
      BY <1>1, <3>1, <3>2 DEF TypeOK, status, kind, Contract!Next, Contract!Publish
    <3>3. CASE stream \notin AsWhole
      <4>1. kind' = "partial" /\ kind # "whole"
        BY <1>2, <2>2, <3>1, <3>3 DEF kind, PipeInv, BackendInv
      <4>2. CASE put = "failed"
        BY <2>2, <3>1, <4>1, <4>2 DEF status, Contract!Next, Contract!Spoil
      <4>3. CASE put = "wait"
        <5>1. object # Before
          BY <1>6, <2>2, <4>3 DEF CopyBlock, PipeInv, BackendInv
        <5>2. QED
          BY <3>1, <4>1, <4>3, <5>1 DEF kind
      <4>4. QED
        BY <3>1, <4>2, <4>3 DEF TypeOK
    <3>4. QED
      BY <3>2, <3>3
  <2>3. QED
    BY <2>1, <2>2
<1>7. CASE CopyFails \/ ReadEOF
  BY <1>7 DEF CopyFails, ReadEOF, status, kind
<1>8. CASE ClosePut
  <2>1. stream \in AsWhole /\ put # "ok" /\ put' = put
        /\ backend = "close" /\ backend' \in {"ok", "error"}
    BY <1>8 DEF ClosePut, PipeInv, BackendInv
  <2>2. status' = status /\ status \in {"running", "failed"}
    BY <2>1 DEF status, TypeOK
  <2>3. kind' = kind \/ kind' = "whole"
    BY <1>1, <1>8, <2>1 DEF ClosePut, kind
  <2>4. QED
    BY <2>2, <2>3 DEF Contract!Next, Contract!Publish
<1>9. CASE CloseAfterError
  <2>1. put = "failed" /\ put' = put
    BY <1>9 DEF CloseAfterError, PipeInv, BackendInv, TypeOK
  <2>2. object' = object \/ (object' = stream /\ Backend = "writer")
    BY <1>9 DEF CloseAfterError
  <2>3. kind' = kind \/ (kind' \in {"whole", "partial"} /\ Backend = "writer")
    BY <1>2, <2>2 DEF kind
  <2>4. QED
    BY <2>1, <2>3 DEF status, Contract!Next, Contract!Publish, Contract!Spoil
<1>10. CASE ReceiveOK
  BY <1>1, <1>10 DEF ReceiveOK, PipeInv, BackendInv, status, kind,
     Contract!Next, Contract!Succeed
<1>11. CASE ReceiveError
  BY <1>11 DEF ReceiveError, Answer, status, kind,
     Contract!Next, Contract!Refuse, Contract!Fail
<1>12. CASE Timeout
  BY <1>12 DEF Timeout, status, kind, Contract!Next, Contract!Refuse, Contract!Fail
<1>13. CASE CloseReader \/ UNCHANGED vars
  BY <1>13 DEF CloseReader, vars, status, kind
<1>14. QED
  BY <1>3, <1>4, <1>5, <1>6, <1>7, <1>8, <1>9, <1>10, <1>11, <1>12, <1>13
     DEF Next, BackendStep, CallerStep, Ended

(***************************************************************************)
(* The pipe, the archiver, the backend and the timeout together implement  *)
(* the upload that Rebuild relies on.                                      *)
(***************************************************************************)
THEOREM SpecImplementsUpload == Spec => ImplementsUpload
<1>1. Init => Contract!Init
  BY DEF Init, Contract!Init, status, kind
<1>2. QED
  BY <1>1, InitType, NextType, InitPipe, NextPipe, StepImplements, PTL
     DEF Spec, ImplementsUpload, Contract!Spec
=============================================================================
