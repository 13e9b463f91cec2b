------------------------------ MODULE FileStorage ------------------------------
(***************************************************************************)
(* StorageProvider: files in one bucket of Google Cloud Storage.  Each     *)
(* method is one call of the bucket or several, with other requests in     *)
(* between, and the bucket offers nothing to tie them together.  An action *)
(* is what a request does from one answer of the bucket to the next; the   *)
(* first call of a request is part of its arrival.                         *)
(***************************************************************************)
EXTENDS Integers, FiniteSets, Sequences, Functions

CONSTANTS
  Calls,            \* slots for the requests served at once
  Folders, Files,   \* names; a folder may also be left empty
  MaxRequests,      \* bound: requests made in a behaviour
  MaxFaults         \* bound: errors of the bucket and crashes

NoFolder == ""
ASSUME FolderAssumption == NoFolder \notin Folders
ASSUME BoundAssumption == MaxRequests \in Nat /\ MaxFaults \in Nat

VARIABLES
  bucket,           \* the objects, by path
  call,             \* the local variables of the request in each slot
  served, faults,   \* what the bounds count; `served` also numbers the requests
  touched,          \* only for properties: the request that last wrote or deleted a path
  overlapped        \* only for properties: which requests were served at one time

vars == <<bucket, call, served, faults, touched, overlapped>>

-----------------------------------------------------------------------------
(* Data. *)

(* An upload joins folder and file with a slash, whatever the folder; every *)
(* look-up takes the file alone when the folder is empty.                   *)
Slash == "/"
Paths == [folder : Folders \cup {NoFolder, Slash}, file : Files]
(* Mutants: the folder keeps a slash of its own; the folder is left out. *)
DoubleSlashPath(folder, file) == [folder |-> folder \o Slash, file |-> file]
FlatPath(folder, file) == [folder |-> NoFolder, file |-> file]
UploadPath(folder, file) == [folder |-> IF folder = NoFolder THEN Slash ELSE folder, file |-> file]
FilePath(folder, file) == [folder |-> folder, file |-> file]

(* The content of an object is the upload it comes from: its request and the *)
(* path by which look-ups name its folder and file.  Its metadata and ACL    *)
(* are the requests that set them; request 0 was made before.                *)
Content == [by : Nat, path : Paths]
Object == [content : Content, metadata : Nat, acl : Nat]
Uploaded(n, path) == [content |-> [by |-> n, path |-> path], metadata |-> 0, acl |-> 0]
(* A copy takes the metadata along, and not the ACL. *)
CopyOf(object) == [object EXCEPT !.acl = 0]
Without(path) == Restrict(bucket, DOMAIN bucket \ {path})
With(path, object) == [p \in DOMAIN bucket \cup {path} |-> IF p = path THEN object ELSE bucket[p]]

Reads == {"getBuffer", "getBlob", "generateFileUrl"}
Ops == Reads \cup {"uploadFile", "hasFile", "getFile", "listFiles", "deleteFile", "copyFile",
                   "moveFile", "setFileMetadata", "setFileAcl"}
(* `path` is what the request names; `dest`, where a copy or a move leads. *)
Request == [n : Nat, op : Ops, path : Paths, dest : Paths]

(* "none" is null, or false; "ok" any other answer; "error" a rejection. *)
Statuses == {"ok", "none", "error"}
Idle == [pc |-> "idle"]
Working == [pc : {"read", "hasFile", "delete"}, request : Request]
Answered == [pc : {"done"}, status : Statuses]
Local == {Idle} \cup Working \cup Answered

Free(c) == call[c].pc \in {"idle", "done"}
Active(c) == ~Free(c)
Awaits(c, pc, request) == call' = [call EXCEPT ![c] = [pc |-> pc, request |-> request]]
Answers(c, status) == call' = [call EXCEPT ![c] = [pc |-> "done", status |-> status]]

(* The bucket.  A change is acknowledged, refused, or made although an error *)
(* is reported; a read fails or not; an object that is not there is an error *)
(* to all but `exists`.                                                      *)
Fault == faults < MaxFaults /\ faults' = faults + 1
NoFault == faults' = faults
Outcomes == {"acknowledged", "refused", "unacknowledged"}
Reports(outcome) == IF outcome = "acknowledged" THEN NoFault ELSE Fault
Made(outcome) == outcome # "refused"
Exists(path) == path \in DOMAIN bucket

Unchanged == UNCHANGED <<bucket, touched>>
Writes(outcome, request, path, object) ==
  /\ Reports(outcome)
  /\ IF Made(outcome)
     THEN /\ bucket' = With(path, object)
          /\ touched' = [touched EXCEPT ![path] = request.n]
     ELSE Unchanged

(* A request arrives: those being served overlap it. *)
Starts(c, request) ==
  /\ Free(c) /\ served < MaxRequests
  /\ served' = served + 1
  /\ request.n = served'
  /\ overlapped' = overlapped \cup
       {{served', call[d].request.n} : d \in {d \in Calls : Active(d)}}
Named(op, path, dest) == [n |-> served + 1, op |-> op, path |-> path, dest |-> dest]
(* A file name may begin with a slash, which with an empty folder is a path. *)
Lookups == {FilePath(folder, file) : folder \in Folders \cup {NoFolder, Slash}, file \in Files}

-----------------------------------------------------------------------------
(* Methods that are one call of the bucket. *)

UploadFile(c) ==
  \E folder \in Folders \cup {NoFolder}, file \in Files, outcome \in Outcomes :
    LET path == UploadPath(folder, file)
        request == Named("uploadFile", path, path)
    IN  /\ Starts(c, request)
        /\ Writes(outcome, request, path, Uploaded(request.n, FilePath(folder, file)))
        /\ Answers(c, IF outcome = "acknowledged" THEN "ok" ELSE "error")

(* hasFile answers false when the bucket does not answer. *)
HasFile(c) ==
  \E path \in Lookups, ok \in BOOLEAN :
    LET request == Named("hasFile", path, path) IN
    /\ Starts(c, request)
    /\ IF ok THEN NoFault ELSE Fault
    /\ Answers(c, IF ok /\ Exists(path) THEN "ok" ELSE "none")
    /\ Unchanged

(* getFile and listFiles reject when it does not, and getFile without a file. *)
GetFile(c) ==
  \E path \in Paths, op \in {"getFile", "listFiles"}, ok \in BOOLEAN :
    LET request == Named(op, path, path) IN
    /\ Starts(c, request)
    /\ IF ok THEN NoFault ELSE Fault
    /\ Answers(c, IF ok /\ (op = "getFile" => Exists(path)) THEN "ok" ELSE "error")
    /\ Unchanged

SetFile(c) ==
  \E path \in Paths, op \in {"setFileMetadata", "setFileAcl"}, outcome \in Outcomes :
    LET request == Named(op, path, path) IN
    /\ Starts(c, request)
    /\ \/ /\ Exists(path)
          /\ Writes(outcome, request, path,
                    IF op = "setFileMetadata" THEN [bucket[path] EXCEPT !.metadata = request.n]
                                              ELSE [bucket[path] EXCEPT !.acl = request.n])
          /\ Answers(c, IF outcome = "acknowledged" THEN "ok" ELSE "error")
       \/ /\ ~Exists(path) /\ outcome = "refused"
          /\ NoFault
          /\ Answers(c, "error")
          /\ Unchanged

(* What follows the copy.  Mutant: a move goes on whatever became of it. *)
GoesOnAnyway(request, copied) == request.op = "moveFile"
GoesOn(request, copied) == request.op = "moveFile" /\ copied

(* copyFile, and the first half of moveFile. *)
CopyFile(c) ==
  \E op \in {"copyFile", "moveFile"}, path, dest \in Paths, outcome \in Outcomes :
    LET request == Named(op, path, dest)
        copied == Exists(path) /\ outcome = "acknowledged"
    IN
    /\ Starts(c, request)
    /\ \/ Exists(path) /\ Writes(outcome, request, dest, CopyOf(bucket[path]))
       \/ ~Exists(path) /\ outcome = "refused" /\ NoFault /\ Unchanged
    /\ IF GoesOn(request, copied) THEN Awaits(c, "hasFile", request)
       ELSE Answers(c, IF copied THEN "ok" ELSE "error")

-----------------------------------------------------------------------------
(* Methods that ask hasFile first. *)

(* getBuffer, getBlob and generateFileUrl answer null without the file. *)
FindFile(c) ==
  \E op \in Reads, path \in Lookups, ok \in BOOLEAN :
    LET request == Named(op, path, path) IN
    /\ Starts(c, request)
    /\ IF ok THEN NoFault ELSE Fault
    /\ IF ok /\ Exists(path) THEN Awaits(c, "read", request) ELSE Answers(c, "none")
    /\ Unchanged

(* Mutant: with an empty folder, the name is joined as an upload joins it. *)
JoinedSource(request) == UploadPath(request.path.folder, request.path.file)
Source(request) == request.path

(* The file is read, or its URL signed; generateFileUrl answers null for an *)
(* error, and asks the bucket nothing more: its URL may lead nowhere.       *)
ReadFile(c) ==
  LET request == call[c].request IN
  /\ call[c].pc = "read"
  /\ \E ok \in BOOLEAN :
       /\ IF ok THEN NoFault ELSE Fault
       /\ IF request.op = "generateFileUrl"
          THEN Answers(c, IF ok THEN "ok" ELSE "none")
          ELSE Answers(c, IF ok /\ Exists(Source(request)) THEN "ok" ELSE "error")
  /\ UNCHANGED <<bucket, touched, served, overlapped>>

(* deleteFile: without the file, or without an answer, it has nothing to do. *)
FindForDelete(c, request, ok) ==
  /\ IF ok THEN NoFault ELSE Fault
  /\ IF ok /\ Exists(request.path) THEN Awaits(c, "delete", request)
     ELSE Answers(c, "ok")
  /\ Unchanged
DeleteFile(c) ==
  \E path \in Lookups, ok \in BOOLEAN :
    LET request == Named("deleteFile", path, path) IN
    Starts(c, request) /\ FindForDelete(c, request, ok)

(* moveFile calls deleteFile with an empty folder and the source's full name. *)
MoveHasFile(c) ==
  /\ call[c].pc = "hasFile"
  /\ \E ok \in BOOLEAN : FindForDelete(c, call[c].request, ok)
  /\ UNCHANGED <<served, overlapped>>

(* Mutant: the destination is deleted. *)
DestTarget(request) == request.dest
Target(request) == request.path
Delete(c) ==
  LET request == call[c].request
      path == Target(request)
  IN
  /\ call[c].pc = "delete"
  /\ \E outcome \in Outcomes :
       \/ /\ Exists(path)
          /\ Reports(outcome)
          /\ IF Made(outcome)
             THEN bucket' = Without(path) /\ touched' = [touched EXCEPT ![path] = request.n]
             ELSE Unchanged
          /\ Answers(c, IF outcome = "acknowledged" THEN "ok" ELSE "error")
       \/ /\ ~Exists(path) /\ outcome = "refused"
          /\ NoFault
          /\ Answers(c, "error")
          /\ Unchanged
  /\ UNCHANGED <<served, overlapped>>

-----------------------------------------------------------------------------

(* The process dies between two calls of the bucket. *)
Crash ==
  /\ Fault
  /\ \E c \in Calls : Active(c)
  /\ call' = [c \in Calls |-> IF Active(c) THEN Idle ELSE call[c]]
  /\ UNCHANGED <<bucket, served, touched, overlapped>>

(* The bucket holds what earlier requests left in it. *)
Init ==
  /\ \E paths \in SUBSET Paths : bucket = [p \in paths |-> Uploaded(0, p)]
  /\ call = [c \in Calls |-> Idle]
  /\ served = 0 /\ faults = 0
  /\ touched = [p \in Paths |-> 0]
  /\ overlapped = {}

Arrive(c) ==
  \/ UploadFile(c) \/ HasFile(c) \/ GetFile(c) \/ SetFile(c) \/ CopyFile(c)
  \/ FindFile(c) \/ DeleteFile(c)
Proceed(c) == ReadFile(c) \/ MoveHasFile(c) \/ Delete(c)

Next == Crash \/ \E c \in Calls : Arrive(c) \/ Proceed(c)
Spec == Init /\ [][Next]_vars

-----------------------------------------------------------------------------
(* Properties. *)

(* The type invariant. *)
TypeOK ==
  /\ DOMAIN bucket \subseteq Paths
  /\ \A p \in DOMAIN bucket : bucket[p] \in Object
  /\ call \in [Calls -> Local]
  /\ served \in Nat /\ faults \in Nat
  /\ touched \in [Paths -> Nat]
  /\ overlapped \subseteq SUBSET Nat

Disturbed(request, path) == {touched[path], request.n} \in overlapped

(* When a move deletes its source, the destination holds the same content   *)
(* with the same metadata: what is lost was written there, or overwritten or *)
(* deleted at the destination, by a request that overlapped the move.  Only a *)
(* move of a file onto itself loses the file alone.                          *)
LosesOnlyOverlapped ==
  [][\A c \in Calls :
       LET request == call[c].request IN
       call[c].pc = "delete" /\ request.op = "moveFile" /\ bucket' # bucket /\ call'[c] # call[c] =>
         \/ request.path = request.dest
         \/ /\ request.dest \in DOMAIN bucket'
            /\ bucket'[request.dest].content = bucket[request.path].content
            /\ bucket'[request.dest].metadata = bucket[request.path].metadata
         \/ Disturbed(request, request.path)
         \/ Disturbed(request, request.dest)]_vars

(* A move that ends without an error, no step of it having failed, leaves   *)
(* the source gone and its own copy at the destination, unless a request    *)
(* that overlapped it changed either, or they are the same.                 *)
Delivered(request) ==
  /\ \/ request.path \notin DOMAIN bucket'
     \/ {touched'[request.path], request.n} \in overlapped
  /\ \/ request.dest \in DOMAIN bucket' /\ touched'[request.dest] = request.n
     \/ {touched'[request.dest], request.n} \in overlapped
     \/ request.path = request.dest
MovedMeansMoved ==
  [][\A c \in Calls :
       LET request == call[c].request IN
       /\ Active(c) /\ request.op = "moveFile" /\ faults' = faults
       /\ call'[c].pc = "done" /\ call'[c].status = "ok"
       => Delivered(request)]_vars

(* A request that found its file and is then answered with an error met a    *)
(* failure, or the file was deleted by a request that overlapped it.         *)
ErrorNeedsCause ==
  [][\A c \in Calls :
       Active(c) /\ call'[c].pc = "done" /\ call'[c].status = "error" =>
         faults' > faults \/ Disturbed(call[c].request, call[c].request.path)]_vars

(* A file that nothing has touched since its upload lies where the look-ups  *)
(* of its folder and name search, whatever was copied, moved or deleted      *)
(* around it.  Only one uploaded without a folder does not: it lies under a  *)
(* slash, which no look-up adds to a name alone.                             *)
UploadsAreFound ==
  \A path \in DOMAIN bucket :
    LET content == bucket[path].content IN
    touched[path] = content.by =>
      path = content.path \/ (content.path.folder = NoFolder /\ path.folder = Slash)
=============================================================================
