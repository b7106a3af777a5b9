------------------------------- MODULE TightFiles -------------------------------
(***************************************************************************)
(* The file requests of a TightVNC client (TightVNCSupport.cpp): a list of *)
(* a directory, which is sent in pieces from the buffer of the frames, and *)
(* an upload, whose bytes go on over any number of receives. The requests  *)
(* wait for the event loop; what follows is done at interrupt level. A     *)
(* request is one unit of the stream here, and so is any other message; a  *)
(* byte of a file is a unit of its own. The File Manager is external.      *)
(***************************************************************************)
EXTENDS Integers, SequencesExt, Functions

CONSTANTS
  FileRequests,  \* what the client asks for, in this order: [ask, chunk]
  Directory,     \* the lengths of the entries of a directory
  ListBuffer,    \* the size of fbUpdateBuffer
  ListHeader,    \* what is written before the first entry
  MaxOthers,     \* bound: other messages of the client
  FileMishaps    \* what may happen that the code is not made for

AllFileMishaps ==
  {"severalBlocks",    \* what is received lies in two buffers
   "longFragment",     \* a long message is assembled over the data of an upload
   "frameMeetsReply",  \* a frame is sent while a reply is made
   "directoryChanges"} \* a file goes away while the directory is listed

ASSUME FileAssumption ==
  /\ FileRequests \in Seq([ask : {"list", "start", "data", "end"}, chunk : Nat])
  /\ Directory \in Seq(Nat \ {0}) /\ MaxOthers \in Nat /\ FileMishaps \subseteq AllFileMishaps
  /\ ListBuffer \in Nat /\ ListHeader \in 0..ListBuffer
  /\ \A i \in DOMAIN Directory : ListHeader + Directory[i] <= ListBuffer

VARIABLES
  net,             \* what the client has sent and MacTCP has not lent yet
  rds,             \* what is left of the buffers; the first is the one that is read
  place,           \* of the receive chain, or of the event loop that has taken over
  inProgress,      \* vncFlags.fbUpdateInProgress
  compressedSize, fRefNum, nEntries, index, \* TightVNCFileUploadData, in vncClientMessage
  directory,
  frameOn,         \* history: a frame is being sent,
  requested, answered, others, \* the requests, the replies, the other messages,
  written, listed, announced   \*   the file, the entries that were sent, and their length

upload  == <<compressedSize, fRefNum>>
listing == <<nEntries, index, listed, announced>>
frames  == <<inProgress, frameOn>>
peer    == <<requested, others>>
fvars   == <<net, rds, place, upload, listing, frames, directory, peer, answered, written>>

NoRef == 0
OurFile == 1

FileInit ==
  /\ net = <<>> /\ rds = <<<<>>>> /\ place = "receive" /\ inProgress = FALSE
  /\ compressedSize = 0 /\ fRefNum = NoRef /\ nEntries = 0 /\ index = 0
  /\ directory = Directory /\ frameOn = FALSE
  /\ requested = 0 /\ answered = 0 /\ others = 0
  /\ written = <<>> /\ listed = <<>> /\ announced = 0

SumOf(lengths) == FoldLeft(LAMBDA n, len : n + len, 0, lengths)

----------------------------------------------------------------------------
(* The client, which waits for each reply, and the buffers.                  *)

Ask(i)   == <<"ask", i>>
Byte(k)  == <<"byte", k>>
AnOther  == <<"other", 0>>

\* The bytes of the file up to a request.
BytesUpTo(i) == SumOf([j \in 1..i |-> FileRequests[j].chunk])

ClientRequests ==
  /\ requested = answered /\ requested < Len(FileRequests)
  /\ requested' = requested + 1
  /\ net' = net \o <<Ask(requested')>> \o
              [k \in 1..FileRequests[requested'].chunk |-> Byte(BytesUpTo(requested) + k)]
  /\ UNCHANGED <<rds, place, upload, listing, frames, directory, others, answered, written>>

ClientSendsOther ==
  /\ others < MaxOthers
  /\ others' = others + 1 /\ net' = Append(net, AnOther)
  /\ UNCHANGED <<rds, place, upload, listing, frames, directory, requested, answered, written>>

\* TCPNoCopyRcv, and setPosition(0).
Lent ==
  \E n \in 1..Len(net) :
    /\ net' = SubSeq(net, n + 1, Len(net))
    /\ \/ rds' = <<SubSeq(net, 1, n)>>
       \/ /\ "severalBlocks" \in FileMishaps
          /\ \E k \in 1..(n - 1) : rds' = <<SubSeq(net, 1, k), SubSeq(net, k + 1, n)>>

\* vncGotNewMessages, and tightVNCFileUploadBuffersFilled.
BuffersLent ==
  /\ Lent
  /\ \/ place = "receive" /\ place' = "process"
     \/ place = "receiveMore" /\ place' = "fragment"
  /\ UNCHANGED <<upload, listing, frames, directory, peer, answered, written>>

Block == rds[1]

\* inStream.skip: the next buffer is not looked at.
Skip(n) == rds' = [rds EXCEPT ![1] = SubSeq(@, n + 1, Len(@))]

\* Of processMessageFragments and tcpFinishMultiPartMessage: a buffer that ends is the
\* last, as far as these can see.
GoesOn == place' = IF rds'[1] = <<>> THEN "receive" ELSE "process"

\* Where it is assembled from fragments it lies where the upload has its data; only a long
\* one reaches the number of the file.
OtherMessage ==
  /\ place = "process" /\ Head(Block) = AnOther
  /\ Skip(1) /\ GoesOn
  /\ \/ UNCHANGED fRefNum
     \/ "longFragment" \in FileMishaps /\ fRefNum' = NoRef
  /\ UNCHANGED <<net, compressedSize, listing, frames, directory, peer, answered, written>>

\* MAIN_LOOP_ONLY of dispatchTightClientMessage.
PutAside ==
  /\ place = "process" /\ Head(Block)[1] = "ask"
  /\ place' = "deferred"
  /\ UNCHANGED <<net, rds, upload, listing, frames, directory, peer, answered, written>>

----------------------------------------------------------------------------
(* dispatchTightClientMessage in the event loop, when no frame is in progress. *)

Dispatches(ask) ==
  /\ place = "deferred" /\ ~inProgress
  /\ FileRequests[Head(Block)[2]].ask = ask
  /\ Skip(1)

FileUploadStart ==
  /\ Dispatches("start")
  /\ fRefNum' = OurFile /\ written' = <<>>
  /\ place' = "reply"
  /\ UNCHANGED <<net, compressedSize, listing, frames, directory, peer, answered>>

FileUploadData ==
  /\ Dispatches("data")
  /\ compressedSize' = FileRequests[Head(Block)[2]].chunk
  /\ place' = "fragment"
  /\ UNCHANGED <<net, fRefNum, listing, frames, directory, peer, answered, written>>

\* The number of the closed file stays.
FileUploadEnd ==
  /\ Dispatches("end")
  /\ place' = "reply"
  /\ UNCHANGED <<net, upload, listing, frames, directory, peer, answered, written>>

\* A faulty variant: everything in the buffer is taken for the file.
WholeBlock == Len(Block)

BytesRead == IF Len(Block) < compressedSize THEN Len(Block) ELSE compressedSize

\* One round of tightVNCFileUploadDataFragment: at the end of a buffer the buffers are
\* returned, also when the last byte of the file has been read.
UploadDataFragment ==
  /\ place = "fragment" /\ compressedSize > 0
  /\ LET n == BytesRead IN
     /\ Skip(n) /\ compressedSize' = compressedSize - n
     /\ written' = IF fRefNum = OurFile THEN written \o SubSeq(Block, 1, n) ELSE written
  /\ place' = IF rds'[1] = <<>> THEN "receiveMore" ELSE "fragment"
  /\ UNCHANGED <<net, fRefNum, listing, frames, directory, peer, answered>>

UploadedData ==
  /\ place = "fragment" /\ compressedSize = 0
  /\ place' = "reply"
  /\ UNCHANGED <<net, rds, upload, listing, frames, directory, peer, answered, written>>

----------------------------------------------------------------------------
(* The list: a first pass counts, the others fill the buffer.                *)

FileList ==
  /\ Dispatches("list")
  /\ nEntries' = Len(directory) /\ announced' = SumOf(directory)
  /\ index' = 0 /\ listed' = <<>>
  /\ place' = "listing"
  /\ UNCHANGED <<net, upload, frames, directory, peer, answered, written>>

RoomFor(first) == ListBuffer - (IF first THEN ListHeader ELSE 0)

\* How many of the entries from the index on find room.
Fitting(entries, room) ==
  LET fits == {n \in 0..Len(entries) : SumOf(SubSeq(entries, 1, n)) <= room} IN
  CHOOSE n \in fits : \A k \in fits : k <= n

\* What another program may leave of the directory.
MayFind == {directory} \cup
  (IF "directoryChanges" \in FileMishaps /\ directory # <<>> THEN {Tail(directory)} ELSE {})

\* getDirEntries: once for each piece, after the piece before has been sent. Only when the
\* first is in the buffer no frame may begin.
DirEntries ==
  /\ place = "listing"
  /\ directory' \in MayFind
  /\ LET n == Fitting(SubSeq(directory', index + 1, Len(directory')), RoomFor(index = 0)) IN
     /\ index' = index + n
     /\ listed' = listed \o [i \in 1..n |-> directory'[index + i]]
  /\ inProgress' = TRUE
  /\ place' = IF index' = nEntries THEN "reply" ELSE "listing"
  /\ UNCHANGED <<net, rds, upload, nEntries, announced, frameOn, peer, answered, written>>

\* tcpFinishMultiPartMessage, when the reply has been sent.
ReplySent ==
  /\ place = "reply"
  /\ frameOn => "frameMeetsReply" \in FileMishaps
  /\ answered' = answered + 1 /\ inProgress' = FALSE
  /\ UNCHANGED rds /\ GoesOn
  /\ UNCHANGED <<net, upload, listing, frameOn, directory, peer, written>>

----------------------------------------------------------------------------
(* The frames.                                                               *)

FrameBegins ==
  /\ ~inProgress
  /\ place = "listing" => "frameMeetsReply" \in FileMishaps
  /\ inProgress' = TRUE /\ frameOn' = TRUE
  /\ UNCHANGED <<net, rds, place, upload, listing, directory, peer, answered, written>>

FrameEnds ==
  /\ frameOn
  /\ frameOn' = FALSE /\ inProgress' = FALSE
  /\ UNCHANGED <<net, rds, place, upload, listing, directory, peer, answered, written>>

FileNext ==
  \/ ClientRequests \/ ClientSendsOther \/ BuffersLent \/ OtherMessage \/ PutAside
  \/ FileUploadStart \/ FileUploadData \/ FileUploadEnd \/ UploadDataFragment \/ UploadedData
  \/ FileList \/ DirEntries \/ ReplySent \/ FrameBegins \/ FrameEnds

FileSpec == FileInit /\ [][FileNext]_fvars

----------------------------------------------------------------------------

\* The file is made of the bytes that the client has sent, in this order, and has all of a
\* request that was answered, over however many receives it came and whatever came between;
\* a list that was answered has every entry once, as long as it said, every piece of it
\* has an entry left to send, and none was put where a frame was being sent from.
TransfersWhole ==
  LET last == FileRequests[answered].ask IN
  /\ \A k \in DOMAIN written : written[k] = Byte(k)
  /\ answered > 0 /\ answered = requested /\ last \in {"data", "end"} =>
       Len(written) = BytesUpTo(answered)
  /\ answered > 0 /\ answered = requested /\ last = "list" =>
       listed = Directory /\ SumOf(listed) = announced
  /\ place = "listing" /\ nEntries > 0 => index < Len(directory)
  /\ ~(frameOn /\ place = "listing")
=============================================================================
