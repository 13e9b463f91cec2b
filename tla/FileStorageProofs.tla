--------------------------- MODULE FileStorageProofs ---------------------------
(***************************************************************************)
(* Proofs about FileStorage: types, what a move of a file loses, what it   *)
(* has done when it ends, why a request is refused, and where the files    *)
(* lie that were uploaded.                                                 *)
(***************************************************************************)
EXTENDS FileStorage, TLAPS

-----------------------------------------------------------------------------
(* The inductive invariant.  What a request found out in an earlier call of  *)
(* the bucket still holds, unless a request it overlaps wrote or deleted the *)
(* path since.                                                               *)

Numbered == \A c \in Calls : Active(c) => call[c].request.n <= served

AllOverlap == \A c, d \in Calls : c # d /\ Active(c) /\ Active(d) =>
                {call[c].request.n, call[d].request.n} \in overlapped

(* The file a read or a delete has found. *)
SourceFound(pc, request) ==
  pc \in {"read", "delete"} => Exists(request.path) \/ Disturbed(request, request.path)

(* The copy a move has made, and that nothing was lost by it. *)
CopyMade(request) ==
  \/ Exists(request.dest) /\ touched[request.dest] = request.n
  \/ Disturbed(request, request.dest)
NothingLost(request) ==
  \/ /\ Exists(request.path) /\ Exists(request.dest)
     /\ bucket[request.dest].content = bucket[request.path].content
     /\ bucket[request.dest].metadata = bucket[request.path].metadata
  \/ Disturbed(request, request.path)
  \/ Disturbed(request, request.dest)

RequestOK(pc, request) ==
  /\ SourceFound(pc, request)
  /\ request.op = "moveFile" =>
       /\ pc # "read"
       /\ request.path # request.dest => CopyMade(request) /\ NothingLost(request)

StorageInv ==
  /\ TypeOK /\ Numbered /\ AllOverlap
  /\ \A c \in Calls : Active(c) => RequestOK(call[c].pc, call[c].request)

-----------------------------------------------------------------------------
(* The parts an action is made of. *)

Kept(p) ==
  /\ touched'[p] = touched[p]
  /\ Exists(p)' <=> Exists(p)
  /\ Exists(p) => bucket'[p] = bucket[p]
(* Request n has changed paths that it marked as its own, and no others. *)
ChangedOnly(n) == \A p \in Paths : Kept(p) \/ touched'[p] = n

StorageType ==
  /\ DOMAIN bucket \subseteq Paths
  /\ \A p \in DOMAIN bucket : bucket[p] \in Object
  /\ touched \in [Paths -> Nat]

(* What happens to the local variables of a request: it awaits the bucket or *)
(* is answered.                                                              *)
Continues(c, request) ==
  \/ \E status \in Statuses : Answers(c, status)
  \/ \E pc \in {"read", "hasFile", "delete"} :
       Awaits(c, pc, request) /\ RequestOK(pc, request)'

LEMMA ActiveWorking ==
  ASSUME TypeOK, NEW c \in Calls, Active(c)
  PROVE  call[c] \in Working
  BY DEF TypeOK, Active, Free, Local, Idle, Working, Answered

LEMMA FaultsType ==
  ASSUME faults \in Nat, NoFault \/ Fault
  PROVE  faults' \in Nat
  BY DEF NoFault, Fault

LEMMA ReportsFault ==
  ASSUME faults \in Nat, NEW outcome, Reports(outcome)
  PROVE  /\ faults' \in Nat
         /\ outcome = "acknowledged" \/ faults' > faults
  BY DEF Reports, NoFault, Fault

LEMMA UnchangedEffect ==
  ASSUME TypeOK, Unchanged, NEW n
  PROVE  StorageType' /\ ChangedOnly(n)
  BY DEF TypeOK, Unchanged, StorageType, ChangedOnly, Kept, Exists

LEMMA WritesEffect ==
  ASSUME TypeOK, NEW request \in Request, NEW path \in Paths, NEW object \in Object, NEW outcome,
         Writes(outcome, request, path, object)
  PROVE  /\ StorageType' /\ ChangedOnly(request.n) /\ faults' \in Nat
         /\ Made(outcome) => /\ \A p : Exists(p)' <=> Exists(p) \/ p = path
                             /\ bucket'[path] = object /\ touched'[path] = request.n
         /\ \A p : Exists(p) /\ p # path => bucket'[p] = bucket[p]
         /\ Made(outcome) \/ UNCHANGED bucket
  <1>1. faults' \in Nat
    BY ReportsFault DEF Writes, TypeOK
  <1>2. CASE ~Made(outcome)
    <2>1. Unchanged
      BY <1>2 DEF Writes
    <2> QED
      BY <1>1, <1>2, <2>1, UnchangedEffect DEF Unchanged
  <1>3. CASE Made(outcome)
    <2>1. bucket' = With(path, object) /\ touched' = [touched EXCEPT ![path] = request.n]
      BY <1>3 DEF Writes
    <2>2. request.n \in Nat
      BY DEF Request
    <2>3. /\ DOMAIN bucket' = DOMAIN bucket \cup {path}
          /\ bucket'[path] = object
          /\ \A p \in DOMAIN bucket : p # path => bucket'[p] = bucket[p]
      BY <2>1 DEF With
    <2>4. /\ touched' \in [Paths -> Nat] /\ touched'[path] = request.n
          /\ \A p \in Paths : p # path => touched'[p] = touched[p]
      BY <2>1, <2>2 DEF TypeOK
    <2>5. StorageType'
      BY <2>3, <2>4 DEF TypeOK, StorageType
    <2>6. ChangedOnly(request.n)
      BY <2>3, <2>4 DEF ChangedOnly, Kept, Exists
    <2> QED
      BY <1>1, <1>3, <2>3, <2>4, <2>5, <2>6 DEF Exists
  <1> QED
    BY <1>2, <1>3

LEMMA WithoutEffect ==
  ASSUME TypeOK, NEW n \in Nat, NEW path \in Paths,
         bucket' = Without(path), touched' = [touched EXCEPT ![path] = n]
  PROVE  /\ StorageType' /\ ChangedOnly(n)
         /\ \A p : Exists(p)' <=> Exists(p) /\ p # path
         /\ \A p : Exists(p) /\ p # path => bucket'[p] = bucket[p]
  <1>1. /\ DOMAIN bucket' = DOMAIN bucket \ {path}
        /\ \A p \in DOMAIN bucket : p # path => bucket'[p] = bucket[p]
    BY DEF Without, Restrict
  <1>2. /\ touched' \in [Paths -> Nat] /\ touched'[path] = n
        /\ \A p \in Paths : p # path => touched'[p] = touched[p]
    BY DEF TypeOK
  <1>3. StorageType'
    BY <1>1, <1>2 DEF TypeOK, StorageType
  <1>4. ChangedOnly(n)
    BY <1>1, <1>2 DEF ChangedOnly, Kept, Exists
  <1> QED
    BY <1>1, <1>3, <1>4 DEF Exists

LEMMA NamedRequest ==
  ASSUME TypeOK, NEW op \in Ops, NEW path \in Paths, NEW dest \in Paths
  PROVE  /\ Named(op, path, dest) \in Request
         /\ Named(op, path, dest).op = op
         /\ Named(op, path, dest).path = path
         /\ Named(op, path, dest).dest = dest
  BY DEF TypeOK, Named, Request

LEMMA StartsEffect ==
  ASSUME TypeOK, NEW c \in Calls, NEW request, Starts(c, request)
  PROVE  /\ ~Active(c)
         /\ served' \in Nat /\ served' = served + 1 /\ request.n = served'
         /\ overlapped' \subseteq SUBSET Nat /\ overlapped \subseteq overlapped'
         /\ \A d \in Calls : Active(d) => {request.n, call[d].request.n} \in overlapped'
  <1>1. served' \in Nat /\ served' = served + 1 /\ request.n = served'
    BY DEF Starts, TypeOK
  <1>2. \A d \in Calls : Active(d) => call[d].request.n \in Nat
    BY ActiveWorking DEF Working, Request
  <1>3. ASSUME NEW pair \in overlapped', pair \notin overlapped
        PROVE  \E d \in Calls : Active(d) /\ pair = {served', call[d].request.n}
    BY <1>3 DEF Starts
  <1>4. \A pair \in overlapped' : pair \in SUBSET Nat
    BY <1>1, <1>2, <1>3 DEF TypeOK
  <1> QED
    BY <1>1, <1>4 DEF Starts, Active

LEMMA ContinuesEffect ==
  ASSUME TypeOK, NEW c \in Calls, NEW request \in Request, Continues(c, request)
  PROVE  /\ call' \in [Calls -> Local]
         /\ \A d \in Calls : d # c => call'[d] = call[d]
         /\ Active(c)' => call'[c].request = request /\ RequestOK(call[c].pc, call[c].request)'
  <1>1. ASSUME NEW status \in Statuses, Answers(c, status)
        PROVE  /\ call' \in [Calls -> Local] /\ ~Active(c)'
               /\ \A d \in Calls : d # c => call'[d] = call[d]
    <2>1. [pc |-> "done", status |-> status] \in Local
      BY DEF Local, Answered
    <2> QED
      BY <1>1, <2>1 DEF Answers, TypeOK, Active, Free
  <1>2. ASSUME NEW pc \in {"read", "hasFile", "delete"}, Awaits(c, pc, request)
        PROVE  /\ call' \in [Calls -> Local]
               /\ call'[c].pc = pc /\ call'[c].request = request
               /\ \A d \in Calls : d # c => call'[d] = call[d]
    <2>1. [pc |-> pc, request |-> request] \in Local
      BY DEF Local, Working
    <2> QED
      BY <1>2, <2>1 DEF Awaits, TypeOK
  <1>3. CASE \E status \in Statuses : Answers(c, status)
    BY <1>1, <1>3
  <1>4. ASSUME NEW pc \in {"read", "hasFile", "delete"},
               Awaits(c, pc, request), RequestOK(pc, request)'
        PROVE  RequestOK(call[c].pc, call[c].request)'
    BY <1>2, <1>4
  <1> QED
    BY <1>2, <1>3, <1>4 DEF Continues

LEMMA KeepsRequestOK ==
  ASSUME NEW pc, NEW request \in Request, NEW n, ChangedOnly(n),
         {n, request.n} \in overlapped', overlapped \subseteq overlapped',
         RequestOK(pc, request)
  PROVE  RequestOK(pc, request)'
  <1>1. request.path \in Paths /\ request.dest \in Paths
    BY DEF Request
  <1>2. \A p \in Paths : Disturbed(request, p) => Disturbed(request, p)' \/ touched'[p] = n
    BY DEF ChangedOnly, Kept, Disturbed
  <1>3. \A p \in Paths : Kept(p) \/ Disturbed(request, p)'
    BY DEF ChangedOnly, Disturbed
  <1>4. \A p \in Paths : Disturbed(request, p) => Disturbed(request, p)'
    BY <1>2, <1>3 DEF Disturbed
  <1>5. SourceFound(pc, request)'
    BY <1>1, <1>3, <1>4 DEF RequestOK, SourceFound, Kept
  <1>6. CopyMade(request) => CopyMade(request)'
    BY <1>1, <1>3, <1>4 DEF CopyMade, Kept
  <1>7. NothingLost(request) => NothingLost(request)'
    BY <1>1, <1>3, <1>4 DEF NothingLost, Kept
  <1> QED
    BY <1>5, <1>6, <1>7 DEF RequestOK

-----------------------------------------------------------------------------
(* A request arrives. *)

LEMMA PathTypes ==
  /\ Lookups \subseteq Paths
  /\ \A folder \in Folders \cup {NoFolder}, file \in Files : UploadPath(folder, file) \in Paths
  BY DEF Lookups, Paths, FilePath, UploadPath, Slash

(* What an arrival amounts to. *)
Arrival(c, request) ==
  /\ Starts(c, request)
  /\ StorageType' /\ ChangedOnly(request.n) /\ faults' \in Nat
  /\ Continues(c, request)

LEMMA UploadArrives ==
  ASSUME TypeOK, NEW c \in Calls, UploadFile(c)
  PROVE  \E request \in Request : Arrival(c, request)
  <1>1. PICK folder \in Folders \cup {NoFolder}, file \in Files, outcome \in Outcomes :
          LET path == UploadPath(folder, file)
              request == Named("uploadFile", path, path)
          IN  /\ Starts(c, request)
              /\ Writes(outcome, request, path, Uploaded(request.n, FilePath(folder, file)))
              /\ \E status \in Statuses : Answers(c, status)
    BY DEF UploadFile, Statuses
  <1>2. PICK path \in Paths : path = UploadPath(folder, file)
    BY <1>1, PathTypes
  <1>3. PICK request \in Request : request = Named("uploadFile", path, path)
    BY NamedRequest DEF Ops
  <1>4. Uploaded(request.n, FilePath(folder, file)) \in Object
    BY DEF Uploaded, FilePath, Paths, Object, Content, Request
  <1>5. PICK object \in Object : Writes(outcome, request, path, object)
    BY <1>1, <1>2, <1>3, <1>4
  <1> QED
    BY <1>1, <1>2, <1>3, <1>5, WritesEffect DEF Arrival, Continues

LEMMA LookArrives ==
  ASSUME TypeOK, NEW c \in Calls, HasFile(c) \/ GetFile(c)
  PROVE  \E request \in Request : Arrival(c, request)
  <1>1. PICK path \in Paths, op \in Ops :
          /\ Starts(c, Named(op, path, path))
          /\ NoFault \/ Fault
          /\ \E status \in Statuses : Answers(c, status)
          /\ Unchanged
    <2>1. CASE HasFile(c)
      BY <2>1, PathTypes DEF HasFile, Ops, Statuses
    <2>2. CASE GetFile(c)
      BY <2>2 DEF GetFile, Ops, Statuses
    <2> QED
      BY <2>1, <2>2
  <1>2. PICK request \in Request : request = Named(op, path, path)
    BY NamedRequest
  <1>3. faults' \in Nat
    BY <1>1, FaultsType DEF TypeOK
  <1> QED
    BY <1>1, <1>2, <1>3, UnchangedEffect DEF Arrival, Continues

LEMMA SetArrives ==
  ASSUME TypeOK, NEW c \in Calls, SetFile(c)
  PROVE  \E request \in Request : Arrival(c, request)
  <1>1. PICK path \in Paths, op \in {"setFileMetadata", "setFileAcl"}, outcome \in Outcomes :
          LET request == Named(op, path, path) IN
          /\ Starts(c, request)
          /\ \E status \in Statuses : Answers(c, status)
          /\ \/ /\ Exists(path)
                /\ Writes(outcome, request, path,
                    IF op = "setFileMetadata" THEN [bucket[path] EXCEPT !.metadata = request.n]
                                              ELSE [bucket[path] EXCEPT !.acl = request.n])
             \/ NoFault /\ Unchanged
    BY DEF SetFile, Statuses
  <1>2. PICK request \in Request : request = Named(op, path, path)
    BY NamedRequest DEF Ops
  <1>3. CASE NoFault /\ Unchanged
    <2>1. faults' \in Nat
      BY <1>3, FaultsType DEF TypeOK
    <2> QED
      BY <1>1, <1>2, <1>3, <2>1, UnchangedEffect DEF Arrival, Continues
  <1>4. CASE /\ Exists(path)
             /\ Writes(outcome, request, path,
                    IF op = "setFileMetadata" THEN [bucket[path] EXCEPT !.metadata = request.n]
                                              ELSE [bucket[path] EXCEPT !.acl = request.n])
    <2>1. \A object \in Object : /\ [object EXCEPT !.metadata = request.n] \in Object
                                 /\ [object EXCEPT !.acl = request.n] \in Object
      BY DEF Object, Request
    <2>2. bucket[path] \in Object
      BY <1>4 DEF TypeOK, Exists
    <2>3. PICK object \in Object : Writes(outcome, request, path, object)
      BY <1>4, <2>1, <2>2
    <2> QED
      BY <1>1, <1>2, <2>3, WritesEffect DEF Arrival, Continues
  <1> QED
    BY <1>1, <1>2, <1>3, <1>4

LEMMA CopyArrives ==
  ASSUME TypeOK, NEW c \in Calls, CopyFile(c)
  PROVE  \E request \in Request : Arrival(c, request)
  <1>1. PICK op \in {"copyFile", "moveFile"}, path \in Paths, dest \in Paths, outcome \in Outcomes :
          LET request == Named(op, path, dest)
              copied == Exists(path) /\ outcome = "acknowledged"
          IN
          /\ Starts(c, request)
          /\ \/ Exists(path) /\ Writes(outcome, request, dest, CopyOf(bucket[path]))
             \/ ~Exists(path) /\ outcome = "refused" /\ NoFault /\ Unchanged
          /\ IF GoesOn(request, copied) THEN Awaits(c, "hasFile", request)
             ELSE Answers(c, IF copied THEN "ok" ELSE "error")
    BY DEF CopyFile
  <1>2. PICK request \in Request :
          /\ request = Named(op, path, dest)
          /\ request.op = op /\ request.path = path /\ request.dest = dest
    <2>1. op \in Ops
      BY DEF Ops
    <2> QED
      BY <2>1, NamedRequest
  <1>3. \/ op = "moveFile" /\ outcome = "acknowledged" /\ Awaits(c, "hasFile", request)
        \/ \E status \in Statuses : Answers(c, status)
    BY <1>1, <1>2 DEF GoesOn, Statuses
  <1>4. CASE ~Exists(path) /\ NoFault /\ Unchanged
    <2>1. faults' \in Nat
      BY <1>4, FaultsType DEF TypeOK
    <2> QED
      BY <1>1, <1>2, <1>4, <1>3, <2>1, UnchangedEffect DEF Arrival, Continues
  <1>5. CASE Exists(path) /\ Writes(outcome, request, dest, CopyOf(bucket[path]))
    <2>1. bucket[path] \in Object
      BY <1>5 DEF TypeOK, Exists
    <2>2. PICK object \in Object :
            /\ object = CopyOf(bucket[path])
            /\ object.content = bucket[path].content
            /\ object.metadata = bucket[path].metadata
      <3>1. \A o \in Object : /\ CopyOf(o) \in Object
                              /\ CopyOf(o).content = o.content
                              /\ CopyOf(o).metadata = o.metadata
        BY DEF CopyOf, Object
      <3> QED
        BY <2>1, <3>1
    <2>3. Writes(outcome, request, dest, object)
      BY <1>5, <2>2
    <2>4. ASSUME outcome = "acknowledged" PROVE RequestOK("hasFile", request)'
      <3>1. /\ \A p : Exists(p)' <=> Exists(p) \/ p = dest
            /\ bucket'[dest] = object /\ touched'[dest] = request.n
            /\ \A p : Exists(p) /\ p # dest => bucket'[p] = bucket[p]
        BY <2>3, <2>4, WritesEffect DEF Made
      <3>2. path # dest => NothingLost(request)'
        BY <1>2, <1>5, <2>2, <3>1 DEF NothingLost
      <3>3. CopyMade(request)'
        BY <1>2, <3>1 DEF CopyMade
      <3> QED
        BY <1>2, <3>2, <3>3 DEF RequestOK, SourceFound
    <2>5. Continues(c, request)
      BY <1>2, <1>3, <2>4 DEF Continues
    <2> QED
      BY <1>1, <1>2, <2>3, <2>5, WritesEffect DEF Arrival
  <1> QED
    BY <1>1, <1>2, <1>4, <1>5

LEMMA FindArrives ==
  ASSUME TypeOK, NEW c \in Calls, FindFile(c)
  PROVE  \E request \in Request : Arrival(c, request)
  <1>1. PICK op \in Reads, path \in Lookups, ok \in BOOLEAN :
          LET request == Named(op, path, path) IN
          /\ Starts(c, request)
          /\ IF ok THEN NoFault ELSE Fault
          /\ IF ok /\ Exists(path) THEN Awaits(c, "read", request) ELSE Answers(c, "none")
          /\ Unchanged
    BY DEF FindFile
  <1>2. PICK request \in Request :
          /\ request = Named(op, path, path)
          /\ request.op = op /\ request.path = path
    BY NamedRequest, PathTypes DEF Ops
  <1>3. faults' \in Nat
    BY <1>1, FaultsType DEF TypeOK
  <1>4. op # "moveFile"
    BY DEF Reads
  <1>5. Exists(path) => RequestOK("read", request)'
    BY <1>1, <1>2, <1>4 DEF RequestOK, SourceFound, Unchanged, Exists
  <1>6. Continues(c, request)
    BY <1>1, <1>2, <1>5 DEF Continues, Statuses
  <1> QED
    BY <1>1, <1>2, <1>3, <1>6, UnchangedEffect DEF Arrival

(* deleteFile, and the second call of a move: what is awaited next is the    *)
(* deletion of a file that was found.                                        *)
LEMMA FindForDeleteEffect ==
  ASSUME TypeOK, NEW c \in Calls, NEW request \in Request, NEW ok \in BOOLEAN,
         FindForDelete(c, request, ok), overlapped \subseteq overlapped',
         request.op = "moveFile" /\ request.path # request.dest =>
           CopyMade(request) /\ NothingLost(request)
  PROVE  StorageType' /\ ChangedOnly(request.n) /\ faults' \in Nat /\ Continues(c, request)
  <1>1. faults' \in Nat
    BY FaultsType DEF FindForDelete, TypeOK
  <1>2. Unchanged
    BY DEF FindForDelete
  <1>3. /\ CopyMade(request) => CopyMade(request)'
        /\ NothingLost(request) => NothingLost(request)'
    BY <1>2 DEF Unchanged, CopyMade, NothingLost, Exists, Disturbed
  <1>4. Exists(request.path) => RequestOK("delete", request)'
    BY <1>2, <1>3 DEF RequestOK, SourceFound, Unchanged, Exists
  <1>5. Continues(c, request)
    BY <1>4 DEF FindForDelete, Continues, Statuses
  <1> QED
    BY <1>1, <1>2, <1>5, UnchangedEffect

LEMMA DeleteArrives ==
  ASSUME TypeOK, NEW c \in Calls, DeleteFile(c)
  PROVE  \E request \in Request : Arrival(c, request)
  <1>1. PICK path \in Lookups, ok \in BOOLEAN :
          LET request == Named("deleteFile", path, path) IN
          Starts(c, request) /\ FindForDelete(c, request, ok)
    BY DEF DeleteFile
  <1>2. PICK request \in Request :
          request = Named("deleteFile", path, path) /\ request.op = "deleteFile"
    <2>1. "deleteFile" \in Ops /\ path \in Paths
      BY PathTypes DEF Ops
    <2> QED
      BY <2>1, NamedRequest
  <1>3. Starts(c, request) /\ FindForDelete(c, request, ok)
    BY <1>1, <1>2
  <1>4. overlapped \subseteq overlapped'
    BY <1>3, StartsEffect
  <1> QED
    BY <1>2, <1>3, <1>4, FindForDeleteEffect DEF Arrival

LEMMA ArriveEffect ==
  ASSUME TypeOK, NEW c \in Calls, Arrive(c)
  PROVE  \E request \in Request : Arrival(c, request)
  BY UploadArrives, LookArrives, SetArrives, CopyArrives, FindArrives, DeleteArrives DEF Arrive

-----------------------------------------------------------------------------
(* The bucket answers a request. *)

(* What the answer to a request amounts to. *)
Progress(c, request) ==
  /\ StorageType' /\ ChangedOnly(request.n) /\ faults' \in Nat
  /\ Continues(c, request)
  /\ UNCHANGED <<served, overlapped>>

LEMMA ReadProgress ==
  ASSUME TypeOK, NEW c \in Calls, ReadFile(c), NEW request \in Request
  PROVE  Progress(c, request)
  <1>1. NoFault \/ Fault
    BY DEF ReadFile
  <1>2. faults' \in Nat
    BY <1>1, FaultsType DEF TypeOK
  <1>3. Unchanged /\ UNCHANGED <<served, overlapped>>
    BY DEF ReadFile, Unchanged
  <1>4. Continues(c, request)
    BY DEF ReadFile, Continues, Statuses
  <1> QED
    BY <1>2, <1>3, <1>4, UnchangedEffect DEF Progress

LEMMA MoveProgress ==
  ASSUME StorageInv, NEW c \in Calls, NEW request \in Request, request = call[c].request,
         MoveHasFile(c)
  PROVE  Progress(c, request)
  <1>1. PICK ok \in BOOLEAN : FindForDelete(c, request, ok)
    BY DEF MoveHasFile
  <1>2. UNCHANGED <<served, overlapped>>
    BY DEF MoveHasFile
  <1>3. RequestOK(call[c].pc, request)
    BY DEF StorageInv, MoveHasFile, Active, Free
  <1>4. request.op = "moveFile" /\ request.path # request.dest =>
          CopyMade(request) /\ NothingLost(request)
    BY <1>3 DEF RequestOK
  <1> QED
    BY <1>1, <1>2, <1>4, FindForDeleteEffect DEF StorageInv, Progress

LEMMA DeleteProgress ==
  ASSUME TypeOK, NEW c \in Calls, NEW request \in Request, request = call[c].request, Delete(c)
  PROVE  Progress(c, request)
  <1>1. UNCHANGED <<served, overlapped>>
    BY DEF Delete
  <1>2. Continues(c, request)
    BY DEF Delete, Continues, Statuses
  <1>3. request.path \in Paths /\ request.n \in Nat
    BY DEF Request
  <1>4. PICK outcome \in Outcomes :
          \/ /\ Reports(outcome)
             /\ \/ /\ bucket' = Without(request.path)
                   /\ touched' = [touched EXCEPT ![request.path] = request.n]
                \/ Unchanged
          \/ NoFault /\ Unchanged
    BY DEF Delete, Target
  <1>5. faults' \in Nat
    BY <1>4, ReportsFault, FaultsType DEF TypeOK
  <1>6. StorageType' /\ ChangedOnly(request.n)
    BY <1>3, <1>4, WithoutEffect, UnchangedEffect
  <1> QED
    BY <1>1, <1>2, <1>5, <1>6 DEF Progress

LEMMA ProceedEffect ==
  ASSUME StorageInv, NEW c \in Calls, Proceed(c)
  PROVE  /\ Active(c) /\ call[c].request \in Request
         /\ \E request \in Request : request = call[c].request /\ Progress(c, request)
  <1>1. Active(c)
    BY DEF Proceed, ReadFile, MoveHasFile, Delete, Active, Free
  <1>2. PICK request \in Request : request = call[c].request
    BY <1>1, ActiveWorking DEF StorageInv, Working
  <1> QED
    BY <1>1, <1>2, ReadProgress, MoveProgress, DeleteProgress DEF Proceed, StorageInv

-----------------------------------------------------------------------------
(* The invariant. *)

(* A request that starts or goes on keeps the invariant, since it overlaps   *)
(* the other requests that are being served.                                 *)
LEMMA CallKeepsInv ==
  ASSUME StorageInv, NEW c \in Calls, NEW request \in Request,
         StorageType', ChangedOnly(request.n), faults' \in Nat, Continues(c, request),
         served' \in Nat, served <= served', request.n <= served',
         overlapped \subseteq overlapped', overlapped' \subseteq SUBSET Nat,
         \A d \in Calls : d # c /\ Active(d) => {request.n, call[d].request.n} \in overlapped'
  PROVE  StorageInv'
  <1>1. /\ call' \in [Calls -> Local]
        /\ \A d \in Calls : d # c => call'[d] = call[d]
        /\ Active(c)' => call'[c].request = request /\ RequestOK(call[c].pc, call[c].request)'
    BY ContinuesEffect DEF StorageInv
  <1>2. TypeOK'
    BY <1>1 DEF TypeOK, StorageType
  <1>3. \A d \in Calls : d # c /\ Active(d)' => Active(d)
    BY <1>1 DEF Active, Free
  <1>4. ASSUME NEW d \in Calls, Active(d)'
        PROVE  call'[d].request.n <= served' /\ RequestOK(call[d].pc, call[d].request)'
    <2>1. CASE d = c
      BY <1>1, <1>4, <2>1
    <2>2. CASE d # c
      <3>1. Active(d) /\ call'[d] = call[d]
        BY <1>1, <1>3, <1>4, <2>2
      <3>2. PICK pc \in {"read", "hasFile", "delete"}, other \in Request :
              pc = call[d].pc /\ other = call[d].request
        BY <3>1, ActiveWorking DEF StorageInv, Working
      <3>3. RequestOK(pc, other) /\ {request.n, other.n} \in overlapped' /\ other.n <= served
        BY <2>2, <3>1, <3>2 DEF StorageInv, Numbered
      <3>4. RequestOK(pc, other)'
        BY <3>3, KeepsRequestOK
      <3>5. other.n <= served'
        <4>1. other.n \in Nat /\ served \in Nat
          BY DEF Request, StorageInv, TypeOK
        <4> QED
          BY <3>3, <4>1
      <3> QED
        BY <3>1, <3>2, <3>4, <3>5
    <2> QED
      BY <2>1, <2>2
  <1>5. AllOverlap'
    <2> SUFFICES ASSUME NEW d \in Calls, NEW e \in Calls, d # e, Active(d)', Active(e)'
                 PROVE  {call'[d].request.n, call'[e].request.n} \in overlapped'
      BY DEF AllOverlap
    <2>1. CASE d = c
      BY <1>1, <1>3, <2>1
    <2>2. CASE e = c
      <3>1. {request.n, call[d].request.n} \in overlapped'
        BY <1>3, <2>2
      <3>2. {request.n, call[d].request.n} = {call'[d].request.n, call'[e].request.n}
        BY <1>1, <2>2
      <3> QED
        BY <3>1, <3>2
    <2>3. CASE d # c /\ e # c
      BY <1>1, <1>3, <2>3 DEF AllOverlap, StorageInv
    <2> QED
      BY <2>1, <2>2, <2>3
  <1> QED
    BY <1>2, <1>4, <1>5 DEF StorageInv, Numbered

LEMMA ArriveInv ==
  ASSUME StorageInv, NEW c \in Calls, Arrive(c)
  PROVE  StorageInv'
  <1>1. PICK request \in Request : Arrival(c, request)
    BY ArriveEffect DEF StorageInv
  <1>2. Starts(c, request)
    BY <1>1 DEF Arrival
  <1>3. /\ served' \in Nat /\ served' = served + 1 /\ request.n = served'
        /\ overlapped' \subseteq SUBSET Nat /\ overlapped \subseteq overlapped'
        /\ \A d \in Calls : Active(d) => {request.n, call[d].request.n} \in overlapped'
    BY <1>2, StartsEffect DEF StorageInv
  <1>4. served <= served' /\ request.n <= served'
    BY <1>3 DEF StorageInv, TypeOK
  <1> QED
    BY <1>1, <1>3, <1>4, CallKeepsInv DEF Arrival

LEMMA ProceedInv ==
  ASSUME StorageInv, NEW c \in Calls, Proceed(c)
  PROVE  StorageInv'
  <1>1. Active(c)
    BY ProceedEffect
  <1>2. PICK request \in Request : request = call[c].request /\ Progress(c, request)
    BY ProceedEffect
  <1>3. UNCHANGED <<served, overlapped>>
    BY <1>2 DEF Progress
  <1>4. served \in Nat /\ overlapped \subseteq SUBSET Nat /\ request.n <= served
    BY <1>1, <1>2 DEF StorageInv, TypeOK, Numbered
  <1>5. \A d \in Calls : d # c /\ Active(d) => {request.n, call[d].request.n} \in overlapped
    BY <1>1, <1>2 DEF StorageInv, AllOverlap
  <1>6. served' \in Nat /\ served <= served' /\ request.n <= served'
    BY <1>3, <1>4
  <1> QED
    BY <1>2, <1>3, <1>4, <1>5, <1>6, CallKeepsInv DEF Progress

LEMMA CrashInv ==
  ASSUME StorageInv, Crash
  PROVE  StorageInv'
  <1>1. \A c \in Calls : ~Active(c)'
    BY DEF Crash, Active, Free, Idle
  <1>2. faults' \in Nat
    BY FaultsType DEF Crash, StorageInv, TypeOK
  <1>3. Idle \in Local
    BY DEF Local
  <1>4. TypeOK'
    BY <1>2, <1>3 DEF Crash, StorageInv, TypeOK
  <1> QED
    BY <1>1, <1>4 DEF StorageInv, Numbered, AllOverlap

LEMMA InitStorageInv == Init => StorageInv
  <1> SUFFICES ASSUME Init PROVE StorageInv
    OBVIOUS
  <1>1. \A c \in Calls : ~Active(c)
    BY DEF Init, Active, Free, Idle
  <1>2. PICK paths \in SUBSET Paths : bucket = [p \in paths |-> Uploaded(0, p)]
    BY DEF Init
  <1>3. \A p \in Paths : Uploaded(0, p) \in Object
    BY DEF Uploaded, Object, Content
  <1>4. Idle \in Local
    BY DEF Local
  <1>5. TypeOK
    BY <1>2, <1>3, <1>4 DEF Init, TypeOK
  <1> QED
    BY <1>1, <1>5 DEF StorageInv, Numbered, AllOverlap

LEMMA NextStorageInv == StorageInv /\ [Next]_vars => StorageInv'
  <1> SUFFICES ASSUME StorageInv, [Next]_vars PROVE StorageInv'
    OBVIOUS
  <1>1. CASE UNCHANGED vars
    BY <1>1 DEF vars, StorageInv, TypeOK, Numbered, AllOverlap, RequestOK, SourceFound, CopyMade,
                NothingLost, Exists, Disturbed, Active, Free
  <1> QED
    BY <1>1, ArriveInv, ProceedInv, CrashInv DEF Next

(* The objects of the bucket, the requests and their numbers keep their     *)
(* types, whatever requests the provider serves at once, and whatever the   *)
(* bucket answers.                                                          *)
THEOREM TypeCorrect == Spec => []TypeOK
  <1>1. StorageInv => TypeOK
    BY DEF StorageInv
  <1> QED
    BY <1>1, InitStorageInv, NextStorageInv, PTL DEF Spec

-----------------------------------------------------------------------------
(* What becomes of a request that is being served. *)

(* It changes by an answer of the bucket to its own call, or by a crash. *)
LEMMA OwnStep ==
  ASSUME StorageInv, [Next]_vars, NEW c \in Calls, Active(c), call'[c] # call[c]
  PROVE  Proceed(c) \/ Crash
  <1>1. ASSUME NEW d \in Calls, Arrive(d) PROVE d # c /\ call'[c] = call[c]
    <2>1. PICK request \in Request : Arrival(d, request)
      BY <1>1, ArriveEffect DEF StorageInv
    <2>2. d # c
      BY <2>1, StartsEffect DEF Arrival, StorageInv
    <2> QED
      BY <2>1, <2>2, ContinuesEffect DEF Arrival, StorageInv
  <1>2. ASSUME NEW d \in Calls, Proceed(d), d # c PROVE call'[c] = call[c]
    <2>1. PICK request \in Request : Progress(d, request)
      BY <1>2, ProceedEffect
    <2> QED
      BY <1>2, <2>1, ContinuesEffect DEF Progress, StorageInv
  <1> QED
    BY <1>1, <1>2 DEF Next, vars

LEMMA OwnAnswer ==
  ASSUME StorageInv, [Next]_vars, NEW c \in Calls, Active(c), call'[c].pc = "done"
  PROVE  Proceed(c)
  <1>1. call'[c] # call[c]
    BY DEF Active, Free
  <1>2. ~Crash
    BY DEF Crash, Idle
  <1> QED
    BY <1>1, <1>2, OwnStep

(* When a move deletes its source, the destination holds the same content   *)
(* with the same metadata, unless a request that overlapped the move wrote  *)
(* or deleted one of the two, or they are one file: moveFile deletes only   *)
(* after a copy the bucket has acknowledged.                                *)
THEOREM MovesLoseNothing == Spec => LosesOnlyOverlapped
  <1> DEFINE Loses == \A c \in Calls :
       LET request == call[c].request IN
       call[c].pc = "delete" /\ request.op = "moveFile" /\ bucket' # bucket /\ call'[c] # call[c] =>
         \/ request.path = request.dest
         \/ /\ request.dest \in DOMAIN bucket'
            /\ bucket'[request.dest].content = bucket[request.path].content
            /\ bucket'[request.dest].metadata = bucket[request.path].metadata
         \/ Disturbed(request, request.path)
         \/ Disturbed(request, request.dest)
  <1>1. StorageInv /\ [Next]_vars => [Loses]_vars
    <2> SUFFICES ASSUME StorageInv, [Next]_vars, NEW c \in Calls, call[c].pc = "delete",
                        call[c].request.op = "moveFile", bucket' # bucket, call'[c] # call[c],
                        call[c].request.path # call[c].request.dest,
                        ~Disturbed(call[c].request, call[c].request.path),
                        ~Disturbed(call[c].request, call[c].request.dest)
                 PROVE  LET request == call[c].request IN
                        /\ request.dest \in DOMAIN bucket'
                        /\ bucket'[request.dest].content = bucket[request.path].content
                        /\ bucket'[request.dest].metadata = bucket[request.path].metadata
      OBVIOUS
    <2>1. Active(c)
      BY DEF Active, Free
    <2>2. PICK request \in Request : request = call[c].request
      BY <2>1, ActiveWorking DEF StorageInv, Working
    <2>3. /\ Exists(request.path) /\ Exists(request.dest)
          /\ bucket[request.dest].content = bucket[request.path].content
          /\ bucket[request.dest].metadata = bucket[request.path].metadata
      BY <2>1, <2>2 DEF StorageInv, RequestOK, NothingLost
    <2>4. Proceed(c)
      BY <2>1, OwnStep DEF Crash
    <2>5. bucket' = Without(request.path)
      BY <2>2, <2>4 DEF Proceed, ReadFile, MoveHasFile, Delete, Target, Unchanged
    <2> QED
      BY <2>2, <2>3, <2>5 DEF Without, Restrict, Exists
  <1> QED
    BY <1>1, InitStorageInv, NextStorageInv, PTL DEF Spec, LosesOnlyOverlapped

(* A move that ends without an error, no step of it having failed, leaves   *)
(* the source gone and its own copy at the destination, unless a request    *)
(* that overlapped it changed either, or they are the same.                 *)
THEOREM MovesDeliver == Spec => MovedMeansMoved
  <1> DEFINE Moved == \A c \in Calls :
       LET request == call[c].request IN
       /\ Active(c) /\ request.op = "moveFile" /\ faults' = faults
       /\ call'[c].pc = "done" /\ call'[c].status = "ok"
       => Delivered(request)
  <1>1. StorageInv /\ [Next]_vars => [Moved]_vars
    <2> SUFFICES ASSUME StorageInv, [Next]_vars, NEW c \in Calls,
                        Active(c), call[c].request.op = "moveFile", faults' = faults,
                        call'[c].pc = "done", call'[c].status = "ok"
                 PROVE  LET request == call[c].request IN
                        /\ request.path \notin DOMAIN bucket'
                        /\ \/ /\ request.dest \in DOMAIN bucket'
                              /\ touched'[request.dest] = request.n
                           \/ {touched'[request.dest], request.n} \in overlapped
                           \/ request.path = request.dest
      BY DEF Delivered
    <2>1. PICK request \in Request : request = call[c].request
      BY ActiveWorking DEF StorageInv, Working
    <2>2. Proceed(c) /\ TypeOK
      BY OwnAnswer DEF StorageInv
    <2>3. /\ call[c].pc # "read"
          /\ request.path # request.dest => CopyMade(request)
      BY <2>1 DEF StorageInv, RequestOK
    <2>4. ~Fault
      BY <2>2 DEF Fault, TypeOK
    <2>5. CASE MoveHasFile(c)
      <3>1. PICK ok \in BOOLEAN : FindForDelete(c, request, ok)
        BY <2>1, <2>5 DEF MoveHasFile
      <3>2. ok /\ Unchanged
        BY <2>4, <3>1 DEF FindForDelete
      <3>3. ~Exists(request.path)
        BY <2>2, <3>1, <3>2 DEF FindForDelete, Awaits, TypeOK
      <3> QED
        BY <2>1, <2>3, <3>2, <3>3 DEF Unchanged, Exists, CopyMade, Disturbed
    <2>6. CASE Delete(c)
      <3>1. PICK outcome \in Outcomes :
              \/ /\ Reports(outcome)
                 /\ IF Made(outcome)
                    THEN /\ bucket' = Without(request.path)
                         /\ touched' = [touched EXCEPT ![request.path] = request.n]
                    ELSE Unchanged
              \/ Answers(c, "error")
        BY <2>1, <2>6 DEF Delete, Target
      <3>2. ~Answers(c, "error")
        BY <2>2 DEF Answers, TypeOK
      <3>3. /\ bucket' = Without(request.path)
            /\ touched' = [touched EXCEPT ![request.path] = request.n]
        BY <2>4, <3>1, <3>2 DEF Reports, Made
      <3>4. /\ ~Exists(request.path)'
            /\ request.path # request.dest =>
                 /\ Exists(request.dest)' <=> Exists(request.dest)
                 /\ touched'[request.dest] = touched[request.dest]
        BY <2>2, <3>3 DEF Without, Restrict, Exists, TypeOK, Request
      <3> QED
        BY <2>1, <2>3, <3>4 DEF Exists, CopyMade, Disturbed
    <2> QED
      BY <2>2, <2>3, <2>5, <2>6 DEF Proceed, ReadFile
  <1> QED
    BY <1>1, InitStorageInv, NextStorageInv, PTL DEF Spec, MovedMeansMoved

(* A request that found its file and is then answered with an error met a    *)
(* failure, or the file was deleted by a request that overlapped it.         *)
THEOREM ErrorsHaveCause == Spec => ErrorNeedsCause
  <1> DEFINE Caused == \A c \in Calls :
       Active(c) /\ call'[c].pc = "done" /\ call'[c].status = "error" =>
         faults' > faults \/ Disturbed(call[c].request, call[c].request.path)
  <1>1. StorageInv /\ [Next]_vars => [Caused]_vars
    <2> SUFFICES ASSUME StorageInv, [Next]_vars, NEW c \in Calls,
                        Active(c), call'[c].pc = "done", call'[c].status = "error"
                 PROVE  faults' > faults \/ Disturbed(call[c].request, call[c].request.path)
      OBVIOUS
    <2>1. Proceed(c) /\ TypeOK /\ SourceFound(call[c].pc, call[c].request)
      BY OwnAnswer DEF StorageInv, RequestOK
    <2>2. Fault => faults' > faults
      BY <2>1 DEF Fault, TypeOK
    <2>3. \A status : Answers(c, status) => status = "error"
      BY <2>1 DEF Answers, TypeOK
    <2>4. CASE ReadFile(c)
      BY <2>1, <2>2, <2>3, <2>4 DEF ReadFile, Source, SourceFound
    <2>5. CASE MoveHasFile(c)
      BY <2>1, <2>3, <2>5 DEF MoveHasFile, FindForDelete, Awaits, TypeOK
    <2>6. CASE Delete(c)
      BY <2>1, <2>2, <2>3, <2>6 DEF Delete, Target, SourceFound, Reports
    <2> QED
      BY <2>1, <2>4, <2>5, <2>6 DEF Proceed
  <1> QED
    BY <1>1, InitStorageInv, NextStorageInv, PTL DEF Spec, ErrorNeedsCause

-----------------------------------------------------------------------------
(* Where the files lie.  An object holds the content of a request that has   *)
(* arrived: whoever writes it later is a later request, and marks it so.     *)

InPlace(path, content) ==
  path = content.path \/ (content.path.folder = NoFolder /\ path.folder = Slash)

FoundInv ==
  \A p \in DOMAIN bucket :
    LET content == bucket[p].content IN
    content.by <= served /\ (touched[p] = content.by => InPlace(p, content))

(* An object that is written is a new upload in its place, or an older one. *)
LEMMA WritesFound ==
  ASSUME StorageInv, FoundInv, NEW request \in Request, NEW path \in Paths, NEW object \in Object,
         NEW outcome, Writes(outcome, request, path, object),
         served' = served + 1, request.n = served',
         \/ object.content.by <= served
         \/ object.content.by = request.n /\ InPlace(path, object.content)
  PROVE  FoundInv'
  <1>1. TypeOK /\ served \in Nat
    BY DEF StorageInv, TypeOK
  <1>2. \A p \in DOMAIN bucket : p \in Paths /\ bucket[p].content.by \in Nat
    BY <1>1 DEF TypeOK, Object, Content
  <1>3. object.content.by \in Nat
    BY DEF Object, Content
  <1>4. CASE ~Made(outcome)
    <2>1. UNCHANGED <<bucket, touched>>
      BY <1>4 DEF Writes, Unchanged
    <2> QED
      BY <1>1, <1>2, <2>1 DEF FoundInv, InPlace
  <1>5. CASE Made(outcome)
    <2>1. /\ \A p : Exists(p)' <=> Exists(p) \/ p = path
          /\ bucket'[path] = object /\ touched'[path] = request.n
          /\ \A p : Exists(p) /\ p # path => bucket'[p] = bucket[p]
      BY <1>1, <1>5, WritesEffect
    <2>2. \A p \in Paths : p # path => touched'[p] = touched[p]
      BY <1>1, <1>5 DEF Writes, TypeOK
    <2>3. ASSUME NEW p \in DOMAIN bucket'
          PROVE  /\ bucket'[p].content.by <= served'
                 /\ touched'[p] = bucket'[p].content.by => InPlace(p, bucket'[p].content)
      <3>1. CASE p = path
        BY <1>1, <1>3, <2>1, <3>1
      <3>2. CASE p # path
        <4>1. p \in DOMAIN bucket /\ bucket'[p] = bucket[p]
          BY <2>1, <2>3, <3>2 DEF Exists
        <4>2. touched'[p] = touched[p]
          BY <1>2, <2>2, <3>2, <4>1
        <4> QED
          BY <1>1, <1>2, <4>1, <4>2 DEF FoundInv
      <3> QED
        BY <3>1, <3>2
    <2> QED
      BY <2>3 DEF FoundInv, InPlace
  <1> QED
    BY <1>4, <1>5

LEMMA UnchangedFound ==
  ASSUME StorageInv, FoundInv, UNCHANGED <<bucket, touched>>,
         served' = served \/ served' = served + 1
  PROVE  FoundInv'
  <1>1. served \in Nat /\ \A p \in DOMAIN bucket : bucket[p].content.by \in Nat
    BY DEF StorageInv, TypeOK, Object, Content
  <1> QED
    BY <1>1 DEF FoundInv, InPlace

LEMMA UploadFound ==
  ASSUME StorageInv, FoundInv, NEW c \in Calls, UploadFile(c)
  PROVE  FoundInv'
  <1>1. PICK folder \in Folders \cup {NoFolder}, file \in Files, outcome \in Outcomes :
          LET path == UploadPath(folder, file)
              request == Named("uploadFile", path, path)
          IN  /\ Starts(c, request)
              /\ Writes(outcome, request, path, Uploaded(request.n, FilePath(folder, file)))
    BY DEF UploadFile
  <1>2. PICK path \in Paths : path = UploadPath(folder, file)
    BY <1>1, PathTypes
  <1>3. PICK request \in Request : request = Named("uploadFile", path, path)
    BY NamedRequest DEF StorageInv, Ops
  <1>4. PICK object \in Object : object = Uploaded(request.n, FilePath(folder, file))
    BY DEF Uploaded, FilePath, Paths, Object, Content, Request
  <1>5. Starts(c, request) /\ Writes(outcome, request, path, object)
    BY <1>1, <1>2, <1>3, <1>4
  <1>6. object.content.by = request.n /\ InPlace(path, object.content)
    BY <1>2, <1>4 DEF Uploaded, InPlace, UploadPath, FilePath
  <1>7. served' = served + 1 /\ request.n = served'
    BY <1>5, StartsEffect DEF StorageInv
  <1> QED
    BY <1>5, <1>6, <1>7, WritesFound

LEMMA SetFound ==
  ASSUME StorageInv, FoundInv, NEW c \in Calls, SetFile(c)
  PROVE  FoundInv'
  <1>1. PICK path \in Paths, op \in {"setFileMetadata", "setFileAcl"}, outcome \in Outcomes :
          LET request == Named(op, path, path) IN
          /\ Starts(c, request)
          /\ \/ /\ Exists(path)
                /\ Writes(outcome, request, path,
                    IF op = "setFileMetadata" THEN [bucket[path] EXCEPT !.metadata = request.n]
                                              ELSE [bucket[path] EXCEPT !.acl = request.n])
             \/ Unchanged
    BY DEF SetFile
  <1>2. PICK request \in Request : request = Named(op, path, path)
    BY NamedRequest DEF StorageInv, Ops
  <1>3. served' = served + 1 /\ request.n = served'
    BY <1>1, <1>2, StartsEffect DEF StorageInv
  <1>4. CASE Unchanged
    BY <1>3, <1>4, UnchangedFound DEF Unchanged
  <1>5. CASE /\ Exists(path)
             /\ Writes(outcome, request, path,
                    IF op = "setFileMetadata" THEN [bucket[path] EXCEPT !.metadata = request.n]
                                              ELSE [bucket[path] EXCEPT !.acl = request.n])
    <2>1. \A object \in Object : /\ [object EXCEPT !.metadata = request.n] \in Object
                                 /\ [object EXCEPT !.metadata = request.n].content = object.content
                                 /\ [object EXCEPT !.acl = request.n] \in Object
                                 /\ [object EXCEPT !.acl = request.n].content = object.content
      BY DEF Object, Request
    <2>2. bucket[path] \in Object
      BY <1>5 DEF StorageInv, TypeOK, Exists
    <2>3. PICK object \in Object : /\ Writes(outcome, request, path, object)
                                   /\ object.content = bucket[path].content
      BY <1>5, <2>1, <2>2
    <2>4. object.content.by <= served
      BY <1>5, <2>3 DEF FoundInv, Exists
    <2> QED
      BY <1>3, <2>3, <2>4, WritesFound
  <1> QED
    BY <1>1, <1>2, <1>4, <1>5

LEMMA CopyFound ==
  ASSUME StorageInv, FoundInv, NEW c \in Calls, CopyFile(c)
  PROVE  FoundInv'
  <1>1. PICK op \in {"copyFile", "moveFile"}, path \in Paths, dest \in Paths, outcome \in Outcomes :
          LET request == Named(op, path, dest) IN
          /\ Starts(c, request)
          /\ \/ Exists(path) /\ Writes(outcome, request, dest, CopyOf(bucket[path]))
             \/ Unchanged
    BY DEF CopyFile
  <1>2. PICK request \in Request : request = Named(op, path, dest)
    BY NamedRequest DEF StorageInv, Ops
  <1>3. served' = served + 1 /\ request.n = served'
    BY <1>1, <1>2, StartsEffect DEF StorageInv
  <1>4. CASE Unchanged
    BY <1>3, <1>4, UnchangedFound DEF Unchanged
  <1>5. CASE Exists(path) /\ Writes(outcome, request, dest, CopyOf(bucket[path]))
    <2>1. \A object \in Object : CopyOf(object) \in Object /\ CopyOf(object).content = object.content
      BY DEF CopyOf, Object
    <2>2. bucket[path] \in Object
      BY <1>5 DEF StorageInv, TypeOK, Exists
    <2>3. PICK object \in Object : /\ Writes(outcome, request, dest, object)
                                   /\ object.content = bucket[path].content
      BY <1>5, <2>1, <2>2
    <2>4. object.content.by <= served
      BY <1>5, <2>3 DEF FoundInv, Exists
    <2> QED
      BY <1>3, <2>3, <2>4, WritesFound
  <1> QED
    BY <1>1, <1>2, <1>4, <1>5

LEMMA LookFound ==
  ASSUME StorageInv, FoundInv, NEW c \in Calls,
         HasFile(c) \/ GetFile(c) \/ FindFile(c) \/ DeleteFile(c)
  PROVE  FoundInv'
  <1>1. \E request : Starts(c, request) /\ Unchanged
    BY DEF HasFile, GetFile, FindFile, DeleteFile, FindForDelete
  <1>2. served' = served + 1
    BY <1>1, StartsEffect DEF StorageInv
  <1> QED
    BY <1>1, <1>2, UnchangedFound DEF Unchanged

LEMMA DeleteFound ==
  ASSUME StorageInv, FoundInv, NEW c \in Calls, Delete(c)
  PROVE  FoundInv'
  <1>1. PICK request \in Request : request = call[c].request
    <2>1. Active(c)
      BY DEF Delete, Active, Free
    <2> QED
      BY <2>1, ActiveWorking DEF StorageInv, Working
  <1>2. served' = served
    BY DEF Delete
  <1>3. CASE Unchanged
    BY <1>2, <1>3, UnchangedFound DEF Unchanged
  <1>4. CASE /\ bucket' = Without(request.path)
             /\ touched' = [touched EXCEPT ![request.path] = request.n]
    <2>1. /\ DOMAIN bucket' = DOMAIN bucket \ {request.path}
          /\ \A p \in DOMAIN bucket' : bucket'[p] = bucket[p]
      BY <1>4 DEF Without, Restrict
    <2>2. \A p \in DOMAIN bucket' : touched'[p] = touched[p]
      BY <1>4, <2>1 DEF StorageInv, TypeOK
    <2> QED
      BY <1>2, <2>1, <2>2 DEF FoundInv, InPlace
  <1> QED
    BY <1>1, <1>3, <1>4 DEF Delete, Target

(* A file that nothing has touched since its upload lies where the look-ups  *)
(* of its folder and name search, whatever was copied, moved or deleted      *)
(* around it; one uploaded without a folder lies under a slash.  uploadFile  *)
(* alone writes contents of its own, and at the path of its folder and name. *)
THEOREM UploadsFound == Spec => []UploadsAreFound
  <1>1. Init => FoundInv
    BY DEF Init, FoundInv, InPlace, Uploaded
  <1>2. StorageInv /\ FoundInv /\ [Next]_vars => FoundInv'
    <2> SUFFICES ASSUME StorageInv, FoundInv, [Next]_vars PROVE FoundInv'
      OBVIOUS
    <2>1. CASE UNCHANGED vars
      BY <2>1, UnchangedFound DEF vars
    <2>2. CASE Crash
      BY <2>2, UnchangedFound DEF Crash
    <2>3. ASSUME NEW c \in Calls, Arrive(c) PROVE FoundInv'
      BY <2>3, UploadFound, SetFound, CopyFound, LookFound DEF Arrive
    <2>4. ASSUME NEW c \in Calls, ReadFile(c) \/ MoveHasFile(c) PROVE FoundInv'
      <3>1. UNCHANGED <<bucket, touched, served>>
        BY <2>4 DEF ReadFile, MoveHasFile, FindForDelete, Unchanged
      <3> QED
        BY <3>1, UnchangedFound
    <2> QED
      BY <2>1, <2>2, <2>3, <2>4, DeleteFound DEF Next, Proceed
  <1>3. FoundInv => UploadsAreFound
    BY DEF FoundInv, UploadsAreFound, InPlace
  <1> QED
    BY <1>1, <1>2, <1>3, InitStorageInv, NextStorageInv, PTL DEF Spec
=============================================================================
